---- MODULE Spec2Model ----
(***************************************************************************)
(* Model of the testssl.sh audit engine (AuditEngine) of                   *)
(* test-ssl-auditor-action.  Texts are TLA+ strings, read character by     *)
(* character with SubSeq; JavaScript values that may be undefined are      *)
(* tagged records.  The engine is applied to a findings input under a      *)
(* policy (config.rules) at a current instant `now`; the action's run()    *)
(* loads the policy and applies the engine to each matched file.           *)
(***************************************************************************)
EXTENDS Integers, Sequences, FiniteSets, TLC

VARIABLES
    config,   \* this.config.rules of the engine (set by the constructor)
    results,  \* the parsed JSON handed to audit / getAuditResults
    now,      \* the clock: [day, ms] since the epoch
    ticks,    \* clock ticks taken so far (bounds the clock)
    call,     \* the entry point last invoked: "none", "audit", "getAuditResults"
    callTime, \* the instant `new Date()` gave that call
    threw,    \* whether that call raised an exception instead of returning
    out,      \* the list that call returned
    pc,                   \* where run() stands: "idle", "start", "files", "done", "aborted"
    rulesConfigPath,      \* the input 'rules-config'
    rulesFile,            \* the file at that path
    failOnViolationInput, \* the input 'fail-on-violation'
    files,                \* the files the glob matches, in its order
    index,                \* how many of them the loop has processed
    totalViolations,      \* let totalViolations
    annotations,          \* the core.notice and core.error calls so far
    outputs,              \* the outputs set with core.setOutput
    failed                \* whether core.setFailed was called

engine == <<config, results, now, ticks, call, callTime, threw, out>>

runner == <<pc, rulesConfigPath, rulesFile, failOnViolationInput, files, index,
            totalViolations, annotations, outputs, failed>>

vars == <<engine, runner>>

----------------------------------------------------------------------------
(* JavaScript values *)

Undefined == [t |-> "undefined", s |-> ""]
Str(x) == [t |-> "string", s |-> x]

Null == [t |-> "null", s |-> ""]

\* a number, kept as its decimal text
NumberValue(text) == [t |-> "number", s |-> text]

IsString(v) == v.t = "string"

\* ToBoolean: undefined, null, '' and 0 are falsy
Truthy(v) == (v.t = "string" /\ v.s # "") \/ (v.t = "number" /\ v.s \notin {"0", "NaN"})

----------------------------------------------------------------------------
(* String primitives *)

UpperChars == "ABCDEFGHIJKLMNOPQRSTUVWXYZ"
LowerChars == "abcdefghijklmnopqrstuvwxyz"
DigitChars == "0123456789"

CharAt(s, i) == SubSeq(s, i, i)

CharsOf(s) == {CharAt(s, i) : i \in 1..Len(s)}

IndexIn(c, chars) == CHOOSE i \in 1..Len(chars) : CharAt(chars, i) = c

Digits == CharsOf(DigitChars)

IsDigit(c) == c \in Digits

\* the regular-expression word characters: [A-Za-z0-9_]
WordChars == CharsOf(UpperChars) \cup CharsOf(LowerChars) \cup Digits \cup {"_"}

IsWordChar(c) == c \in WordChars

LowerOf == [c \in CharsOf(UpperChars) |-> CharAt(LowerChars, IndexIn(c, UpperChars))]
UpperOf == [c \in CharsOf(LowerChars) |-> CharAt(UpperChars, IndexIn(c, LowerChars))]

LowerChar(c) == IF c \in DOMAIN LowerOf THEN LowerOf[c] ELSE c
UpperChar(c) == IF c \in DOMAIN UpperOf THEN UpperOf[c] ELSE c

RECURSIVE toLowerCase(_)
toLowerCase(s) == IF s = "" THEN "" ELSE LowerChar(Head(s)) \o toLowerCase(Tail(s))

RECURSIVE toUpperCase(_)
toUpperCase(s) == IF s = "" THEN "" ELSE UpperChar(Head(s)) \o toUpperCase(Tail(s))

\* the positions (1-based) at which sub occurs in s
Occurrences(s, sub) ==
    {i \in 1..(Len(s) - Len(sub) + 1) : SubSeq(s, i, i + Len(sub) - 1) = sub}

includes(s, sub) == Occurrences(s, sub) # {}

startsWith(s, prefix) == Len(prefix) <= Len(s) /\ SubSeq(s, 1, Len(prefix)) = prefix

\* mutant: the greatest element, so that a search keeps its last match
Min_Last(S) == CHOOSE x \in S : \A y \in S : x >= y

Min(S) == CHOOSE x \in S : \A y \in S : x <= y

\* String.prototype.replace with a string pattern: the first occurrence only
replace(s, pat, rep) ==
    IF ~includes(s, pat) THEN s
    ELSE LET i == Min(Occurrences(s, pat))
         IN  SubSeq(s, 1, i - 1) \o rep \o SubSeq(s, i + Len(pat), Len(s))

DigitOf == [c \in Digits |-> IndexIn(c, DigitChars) - 1]

\* decimal value of a string of digits
RECURSIVE DigitsValue(_)
DigitsValue(s) ==
    IF s = "" THEN 0
    ELSE 10 * DigitsValue(SubSeq(s, 1, Len(s) - 1)) + DigitOf[CharAt(s, Len(s))]

AllDigits(s) == \A i \in 1..Len(s) : IsDigit(CharAt(s, i))

RECURSIVE Pow10(_)
Pow10(n) == IF n = 0 THEN 1 ELSE 10 * Pow10(n - 1)

----------------------------------------------------------------------------
(* Helpers of AuditEngine *)

\* mutant: the brackets are written whether or not there is an ip
formatIpSuffix_Always(ip) == " [" \o ip.s \o "]"

formatIpSuffix(ip) == IF Truthy(ip) THEN " [" \o ip.s \o "]" ELSE ""

\* mutant: a plain substring test in place of the word-boundary match
WordOffered_Substring(normalized) == includes(normalized, "offered")

\* /\boffered\b/.test(normalized)
WordOffered(normalized) ==
    \E i \in Occurrences(normalized, "offered") :
        /\ (i = 1 \/ ~IsWordChar(CharAt(normalized, i - 1)))
        /\ (i + 7 > Len(normalized) \/ ~IsWordChar(CharAt(normalized, i + 7)))

isOffered(finding) ==
    IF finding = "" THEN FALSE
    ELSE LET normalized == toLowerCase(finding)
         IN  IF includes(normalized, "not offered") THEN FALSE
             ELSE WordOffered(normalized)

\* first index of results whose item satisfies Test, 0 when there is none
\* (Array.prototype.find)
find(items, Test(_)) ==
    IF \E i \in 1..Len(items) : Test(items[i])
    THEN Min({i \in 1..Len(items) : Test(items[i])})
    ELSE 0

\* Array.prototype.filter
filter(items, Test(_)) == SelectSeq(items, Test)

----------------------------------------------------------------------------
(* Grade rule *)

GradeLetters == <<"T", "F", "E", "D", "C", "B", "A-", "A", "A+">>

\* names every object literal inherits from Object.prototype
InheritedNames ==
    {"constructor", "toString", "valueOf", "hasOwnProperty", "isPrototypeOf",
     "propertyIsEnumerable", "toLocaleString", "__proto__",
     "__defineGetter__", "__defineSetter__", "__lookupGetter__", "__lookupSetter__"}

\* the string an inherited member turns into when it is compared
PrimitiveOf(key) ==
    IF key = "__proto__" THEN "[object Object]"
    ELSE "function " \o (IF key = "constructor" THEN "Object" ELSE key)
             \o "() { [native code] }"

\* GRADE_RANKING[key]: a number, undefined, or an inherited (non-number) member
GRADE_RANKING(key) ==
    IF \E i \in 1..Len(GradeLetters) : GradeLetters[i] = key
    THEN [t |-> "number", n |-> CHOOSE i \in 1..Len(GradeLetters) : GradeLetters[i] = key,
          s |-> ""]
    ELSE IF key \in InheritedNames THEN [t |-> "object", n |-> 0, s |-> PrimitiveOf(key)]
    ELSE [t |-> "undefined", n |-> 0, s |-> ""]

\* the characters of the compared strings in code unit order
CodeOrder == " ()" \o UpperChars \o "[]_" \o LowerChars \o "{}"

\* a < b on strings, by the code units at the first difference
StringLess(a, b) ==
    LET D == {i \in 1..Min({Len(a), Len(b)}) : CharAt(a, i) # CharAt(b, i)}
    IN  IF D = {} THEN Len(a) < Len(b)
        ELSE IndexIn(CharAt(a, Min(D)), CodeOrder) < IndexIn(CharAt(b, Min(D)), CodeOrder)

\* mutant: equal ranks count as below the minimum
RankLess_OrEqual(a, b) ==
    IF a.t = "object" /\ b.t = "object" THEN StringLess(a.s, b.s)
    ELSE a.t = "number" /\ b.t = "number" /\ a.n <= b.n

\* a < b of two looked-up ranks: numbers by value, two inherited members as
\* strings, and an inherited member against a number is NaN and compares false
RankLess(a, b) ==
    IF a.t = "object" /\ b.t = "object" THEN StringLess(a.s, b.s)
    ELSE a.t = "number" /\ b.t = "number" /\ a.n < b.n

IsOverallGrade(item) == item.id = Str("overall_grade")

\* the details payload carries the ranks only on the comparison branches
RankDetail(r) == IF r.t = "number" THEN r.n ELSE r.t

getOverallGradeResults(rules, items) ==
    LET minGrade == rules.minGrade IN
    IF ~Truthy(minGrade) THEN <<>>
    ELSE LET g == find(items, IsOverallGrade) IN
    IF g = 0 THEN <<>>
    ELSE LET actualGrade == items[g].finding IN
    IF ~Truthy(actualGrade) THEN <<>>
    ELSE LET minRank == GRADE_RANKING(minGrade.s)
             actualRank == GRADE_RANKING(actualGrade.s)
         IN
    IF minRank.t = "undefined" THEN
        << [rule |-> "overall-grade", passed |-> FALSE,
            message |-> "Invalid minimum grade specified: " \o minGrade.s,
            details |-> [minGrade |-> minGrade.s, actualGrade |-> actualGrade.s]] >>
    ELSE IF actualRank.t = "undefined" THEN
        << [rule |-> "overall-grade", passed |-> FALSE,
            message |-> "Unknown grade received: " \o actualGrade.s,
            details |-> [minGrade |-> minGrade.s, actualGrade |-> actualGrade.s]] >>
    ELSE IF RankLess(actualRank, minRank) THEN
        << [rule |-> "overall-grade", passed |-> FALSE,
            message |-> "Overall grade " \o actualGrade.s
                        \o " does not meet minimum requirement of " \o minGrade.s,
            details |-> [minGrade |-> minGrade.s, actualGrade |-> actualGrade.s,
                         minRank |-> RankDetail(minRank),
                         actualRank |-> RankDetail(actualRank)]] >>
    ELSE
        << [rule |-> "overall-grade", passed |-> TRUE,
            message |-> "Grade " \o actualGrade.s
                        \o " meets the minimum requirement of " \o minGrade.s,
            details |-> [minGrade |-> minGrade.s, actualGrade |-> actualGrade.s,
                         minRank |-> RankDetail(minRank),
                         actualRank |-> RankDetail(actualRank)]] >>

checkOverallGrade(rules, items) ==
    LET minGrade == rules.minGrade IN
    IF ~Truthy(minGrade) THEN <<>>
    ELSE LET g == find(items, IsOverallGrade) IN
    IF g = 0 THEN <<>>
    ELSE LET actualGrade == items[g].finding IN
    IF ~Truthy(actualGrade) THEN <<>>
    ELSE LET minRank == GRADE_RANKING(minGrade.s)
             actualRank == GRADE_RANKING(actualGrade.s)
         IN
    IF minRank.t = "undefined" THEN
        << [rule |-> "overall-grade",
            message |-> "Invalid minimum grade specified: " \o minGrade.s,
            details |-> [minGrade |-> minGrade.s, actualGrade |-> actualGrade.s]] >>
    ELSE IF actualRank.t = "undefined" THEN
        << [rule |-> "overall-grade",
            message |-> "Unknown grade received: " \o actualGrade.s,
            details |-> [minGrade |-> minGrade.s, actualGrade |-> actualGrade.s]] >>
    ELSE IF RankLess(actualRank, minRank) THEN
        << [rule |-> "overall-grade",
            message |-> "Overall grade " \o actualGrade.s
                        \o " does not meet minimum requirement of " \o minGrade.s,
            details |-> [minGrade |-> minGrade.s, actualGrade |-> actualGrade.s,
                         minRank |-> RankDetail(minRank),
                         actualRank |-> RankDetail(actualRank)]] >>
    ELSE <<>>

----------------------------------------------------------------------------
(* TLS version rule *)

\* length of the run of digits of s that starts at position i
RECURSIVE DigitRun(_, _)
DigitRun(s, i) ==
    IF i <= Len(s) /\ IsDigit(CharAt(s, i)) THEN 1 + DigitRun(s, i + 1) ELSE 0

\* number of leading blanks of s
RECURSIVE LeadingBlanks(_)
LeadingBlanks(s) == IF s # "" /\ Head(s) = " " THEN 1 + LeadingBlanks(Tail(s)) ELSE 0

\* mutant: text that is no number counts as a version above every protocol
NaN_Highest == [nan |-> FALSE, num |-> 99, den |-> 1]

NaN == [nan |-> TRUE, num |-> 0, den |-> 1]

\* parseFloat: the longest prefix [blanks][sign]digits[.digits] as the exact
\* decimal num/den, NaN when no digit is read (exponents and Infinity, which
\* no text drawn here contains, are not read)
parseFloat(text) ==
    LET s == SubSeq(text, LeadingBlanks(text) + 1, Len(text))
        signed == s # "" /\ Head(s) \in {"+", "-"}
        u == IF signed THEN Tail(s) ELSE s
        ni == DigitRun(u, 1)
        hasDot == ni < Len(u) /\ CharAt(u, ni + 1) = "."
        nf == IF hasDot THEN DigitRun(u, ni + 2) ELSE 0
        mag == DigitsValue(SubSeq(u, 1, ni)) * Pow10(nf)
               + DigitsValue(SubSeq(u, ni + 2, ni + 1 + nf))
    IN  IF ni = 0 /\ nf = 0 THEN NaN
        ELSE [nan |-> FALSE,
              num |-> IF signed /\ Head(s) = "-" THEN 0 - mag ELSE mag,
              den |-> Pow10(nf)]

\* mutant: a version equal to the minimum counts as below it
NumLess_OrEqual(a, b) == ~a.nan /\ ~b.nan /\ a.num * b.den <= b.num * a.den

\* a < b on numbers; false when either is NaN
NumLess(a, b) == ~a.nan /\ ~b.nan /\ a.num * b.den < b.num * a.den

\* mutant: the pattern is not anchored at the end
TlsIdTest_Prefix(id) == startsWith(id, "TLS1")

\* /^TLS1(_\d+)?$/.test(id)
TlsIdTest(id) ==
    \/ id = "TLS1"
    \/ /\ startsWith(id, "TLS1_")
       /\ Len(id) > 5
       /\ AllDigits(SubSeq(id, 6, Len(id)))

\* match[1] of /^TLS1(?:_(\d+))?$/: the digits, "" when the group did not take part
TlsIdGroup(id) == IF id = "TLS1" THEN "" ELSE SubSeq(id, 6, Len(id))

\* match[1] ? parseFloat(`1.${match[1]}`) : 1.0
TlsVersionNum(id) ==
    IF TlsIdGroup(id) # "" THEN parseFloat("1." \o TlsIdGroup(id))
    ELSE [nan |-> FALSE, num |-> 1, den |-> 1]

IsTlsProtocol(item) == Truthy(item.id) /\ TlsIdTest(item.id.s) /\ Truthy(item.finding)

TlsDetails(protocol) ==
    [protocol |-> protocol.id.s, finding |-> protocol.finding.s,
     version |-> TlsVersionNum(protocol.id.s), ip |-> protocol.ip]

InsecureTlsMessage(protocol, minVersion) ==
    "Insecure TLS version " \o replace(protocol.id.s, "_", ".")
        \o " is enabled (finding: \"" \o protocol.finding.s
        \o "\", minimum required: TLS " \o minVersion \o ")"
        \o formatIpSuffix(protocol.ip)

\* the body of the loop of getTlsVersionResults for one protocol record
TlsResultOf(protocol, minVersion) ==
    LET versionNum == TlsVersionNum(protocol.id.s)
        minVersionNum == parseFloat(minVersion)
    IN  IF ~TlsIdTest(protocol.id.s) THEN <<>>
        ELSE IF isOffered(protocol.finding.s) THEN
            IF NumLess(versionNum, minVersionNum) THEN
                << [rule |-> "min-tls-version", passed |-> FALSE,
                    message |-> InsecureTlsMessage(protocol, minVersion),
                    details |-> TlsDetails(protocol)] >>
            ELSE
                << [rule |-> "min-tls-version", passed |-> TRUE,
                    message |-> "TLS version " \o replace(protocol.id.s, "_", ".")
                                \o " meets the minimum requirement of TLS " \o minVersion
                                \o formatIpSuffix(protocol.ip),
                    details |-> TlsDetails(protocol)] >>
        ELSE IF NumLess(versionNum, minVersionNum) THEN
                << [rule |-> "min-tls-version", passed |-> TRUE,
                    message |-> "TLS version " \o replace(protocol.id.s, "_", ".")
                                \o " is not offered (finding: \"" \o protocol.finding.s
                                \o "\")" \o formatIpSuffix(protocol.ip),
                    details |-> TlsDetails(protocol)] >>
        ELSE <<>>

\* mutant: a protocol below the minimum is a violation whether offered or not
TlsViolationOf_Unoffered(protocol, minVersion) ==
    IF /\ TlsIdTest(protocol.id.s)
       /\ NumLess(TlsVersionNum(protocol.id.s), parseFloat(minVersion))
    THEN << [rule |-> "min-tls-version",
             message |-> InsecureTlsMessage(protocol, minVersion),
             details |-> TlsDetails(protocol)] >>
    ELSE <<>>

\* the body of the loop of checkTlsVersion for one protocol record
TlsViolationOf(protocol, minVersion) ==
    IF /\ isOffered(protocol.finding.s)
       /\ TlsIdTest(protocol.id.s)
       /\ NumLess(TlsVersionNum(protocol.id.s), parseFloat(minVersion))
    THEN << [rule |-> "min-tls-version",
             message |-> InsecureTlsMessage(protocol, minVersion),
             details |-> TlsDetails(protocol)] >>
    ELSE <<>>

\* concatenation of Body(item) over items, in order
RECURSIVE FlatMap(_, _)
FlatMap(items, Body) ==
    IF items = <<>> THEN <<>> ELSE Body[Head(items)] \o FlatMap(Tail(items), Body)

getTlsVersionResults(rules, items) ==
    IF ~Truthy(rules.minTlsVersion) THEN <<>>
    ELSE LET tlsProtocols == filter(items, IsTlsProtocol)
         IN  FlatMap(tlsProtocols,
                     [p \in {tlsProtocols[i] : i \in 1..Len(tlsProtocols)} |->
                         TlsResultOf(p, rules.minTlsVersion.s)])

\* mutant: only the first protocol record is examined (find instead of filter)
checkTlsVersion_FirstOnly(rules, items) ==
    IF ~Truthy(rules.minTlsVersion) THEN <<>>
    ELSE LET f == find(items, IsTlsProtocol)
         IN  IF f = 0 THEN <<>> ELSE TlsViolationOf(items[f], rules.minTlsVersion.s)

checkTlsVersion(rules, items) ==
    IF ~Truthy(rules.minTlsVersion) THEN <<>>
    ELSE LET tlsProtocols == filter(items, IsTlsProtocol)
         IN  FlatMap(tlsProtocols,
                     [p \in {tlsProtocols[i] : i \in 1..Len(tlsProtocols)} |->
                         TlsViolationOf(p, rules.minTlsVersion.s)])

----------------------------------------------------------------------------
(* Blocked cipher rule *)

\* this.config.rules.blockedCiphers || []
BlockedList(rules) == IF rules.blockedCiphers.t = "array" THEN rules.blockedCiphers.items ELSE <<>>

IsCipherItem(item) ==
    Truthy(item.id) /\ startsWith(item.id.s, "cipherlist_") /\ Truthy(item.finding)

CipherMatches(cipherName, blocked) == includes(toUpperCase(cipherName), toUpperCase(blocked))

Max(S) == CHOOSE x \in S : \A y \in S : x >= y

\* mutant: the loop does not break, the last matching pattern is the one reported
FirstBlocked_Last(cipherName, blockedCiphers) ==
    IF \E k \in 1..Len(blockedCiphers) : CipherMatches(cipherName, blockedCiphers[k])
    THEN Max({k \in 1..Len(blockedCiphers) : CipherMatches(cipherName, blockedCiphers[k])})
    ELSE 0

\* index of the pattern at which the loop over blockedCiphers breaks, 0 when
\* it runs to the end without a match
FirstBlocked(cipherName, blockedCiphers) ==
    IF \E k \in 1..Len(blockedCiphers) : CipherMatches(cipherName, blockedCiphers[k])
    THEN Min({k \in 1..Len(blockedCiphers) : CipherMatches(cipherName, blockedCiphers[k])})
    ELSE 0

CipherDetails(item, cipherName, blocked) ==
    [cipher |-> cipherName, blocked |-> blocked, id |-> item.id.s, ip |-> item.ip]

BlockedCipherMessage(item, cipherName) ==
    "Blocked cipher suite detected: " \o cipherName
        \o " (finding: \"" \o item.finding.s \o "\")" \o formatIpSuffix(item.ip)

\* the body of the loop of getBlockedCipherResults for one cipher record
CipherResultOf(item, blockedCiphers) ==
    LET cipherName == replace(item.id.s, "cipherlist_", "")
        k == FirstBlocked(cipherName, blockedCiphers)
    IN  IF k = 0 THEN <<>>
        ELSE IF isOffered(item.finding.s) THEN
            << [rule |-> "blocked-cipher", passed |-> FALSE,
                message |-> BlockedCipherMessage(item, cipherName),
                details |-> CipherDetails(item, cipherName, blockedCiphers[k])] >>
        ELSE
            << [rule |-> "blocked-cipher", passed |-> TRUE,
                message |-> "Blocked cipher suite " \o cipherName
                            \o " is not offered (finding: \"" \o item.finding.s \o "\")"
                            \o formatIpSuffix(item.ip),
                details |-> CipherDetails(item, cipherName, blockedCiphers[k])] >>

\* the body of the loop of checkBlockedCiphers for one cipher record
CipherViolationOf(item, blockedCiphers) ==
    IF ~isOffered(item.finding.s) THEN <<>>
    ELSE LET cipherName == replace(item.id.s, "cipherlist_", "")
             k == FirstBlocked(cipherName, blockedCiphers)
         IN  IF k = 0 THEN <<>>
             ELSE << [rule |-> "blocked-cipher",
                      message |-> BlockedCipherMessage(item, cipherName),
                      details |-> CipherDetails(item, cipherName, blockedCiphers[k])] >>

getBlockedCipherResults(rules, items) ==
    LET blockedCiphers == BlockedList(rules) IN
    IF Len(blockedCiphers) = 0 THEN <<>>
    ELSE LET cipherItems == filter(items, IsCipherItem)
         IN  FlatMap(cipherItems,
                     [c \in {cipherItems[i] : i \in 1..Len(cipherItems)} |->
                         CipherResultOf(c, blockedCiphers)])

checkBlockedCiphers(rules, items) ==
    LET blockedCiphers == BlockedList(rules) IN
    IF Len(blockedCiphers) = 0 THEN <<>>
    ELSE LET cipherItems == filter(items, IsCipherItem)
         IN  FlatMap(cipherItems,
                     [c \in {cipherItems[i] : i \in 1..Len(cipherItems)} |->
                         CipherViolationOf(c, blockedCiphers)])

----------------------------------------------------------------------------
(* Forward secrecy rule *)

IsPfsItem(item) == Truthy(item.id) /\ includes(toLowerCase(item.id.s), "pfs")

\* mutant: the INFO severity is not exempted
SeverityBad_OnlyOK(severity) == Truthy(severity) /\ severity.s # "OK"

\* fsItem.severity && fsItem.severity !== 'OK' && fsItem.severity !== 'INFO'
SeverityBad(severity) == Truthy(severity) /\ severity.s # "OK" /\ severity.s # "INFO"

FsDetails(fsItem) == [finding |-> fsItem.finding, severity |-> fsItem.severity, ip |-> fsItem.ip]

getForwardSecrecyResults(items) ==
    LET f == find(items, IsPfsItem) IN
    IF f = 0 THEN <<>>
    ELSE IF SeverityBad(items[f].severity) THEN
        << [rule |-> "forward-secrecy", passed |-> FALSE,
            message |-> "Forward secrecy is not properly configured"
                        \o formatIpSuffix(items[f].ip),
            details |-> FsDetails(items[f])] >>
    ELSE
        << [rule |-> "forward-secrecy", passed |-> TRUE,
            message |-> "Forward secrecy is properly configured"
                        \o formatIpSuffix(items[f].ip),
            details |-> FsDetails(items[f])] >>

checkForwardSecrecy(items) ==
    LET f == find(items, IsPfsItem) IN
    IF f = 0 THEN <<>>
    ELSE IF SeverityBad(items[f].severity) THEN
        << [rule |-> "forward-secrecy",
            message |-> "Forward secrecy is not properly configured"
                        \o formatIpSuffix(items[f].ip),
            details |-> FsDetails(items[f])] >>
    ELSE <<>>

----------------------------------------------------------------------------
(* Dates.  An instant is [day |-> days since 1970-01-01, ms |-> millisecond
   of that day], which keeps every quantity inside TLC's integers. *)

MILLISECONDS_PER_DAY == 1000 * 60 * 60 * 24

\* mutant: the NaN time value is taken for the epoch
InvalidDate_Epoch == [valid |-> TRUE, day |-> 0, ms |-> 0]

InvalidDate == [valid |-> FALSE, day |-> 0, ms |-> 0]

\* days from 1970-01-01 to the civil date y-m-d (proleptic Gregorian); a day
\* past the end of the month runs on into the next month, as MakeDay does
DaysFromCivil(y, m, d) ==
    LET yy == IF m <= 2 THEN y - 1 ELSE y
        era == yy \div 400
        yoe == yy - era * 400
        mp == IF m > 2 THEN m - 3 ELSE m + 9
        doy == (153 * mp + 2) \div 5 + d - 1
        doe == yoe * 365 + yoe \div 4 - yoe \div 100 + doy
    IN  era * 146097 + doe - 719468

\* the text has the shape YYYY-MM-DDTHH:mm:ssZ
IsoShaped(iso) ==
    /\ Len(iso) = 20
    /\ AllDigits(SubSeq(iso, 1, 4)) /\ CharAt(iso, 5) = "-"
    /\ AllDigits(SubSeq(iso, 6, 7)) /\ CharAt(iso, 8) = "-"
    /\ AllDigits(SubSeq(iso, 9, 10)) /\ CharAt(iso, 11) = "T"
    /\ AllDigits(SubSeq(iso, 12, 13)) /\ CharAt(iso, 14) = ":"
    /\ AllDigits(SubSeq(iso, 15, 16)) /\ CharAt(iso, 17) = ":"
    /\ AllDigits(SubSeq(iso, 18, 19)) /\ CharAt(iso, 20) = "Z"

\* new Date(isoString) for a date-time text in UTC: the instant, or an invalid
\* date when a field is out of range or the text is not a date-time
DateParse(iso) ==
    IF ~IsoShaped(iso) THEN InvalidDate
    ELSE LET y == DigitsValue(SubSeq(iso, 1, 4))
             m == DigitsValue(SubSeq(iso, 6, 7))
             d == DigitsValue(SubSeq(iso, 9, 10))
             hh == DigitsValue(SubSeq(iso, 12, 13))
             mi == DigitsValue(SubSeq(iso, 15, 16))
             ss == DigitsValue(SubSeq(iso, 18, 19))
             okTime == \/ (hh <= 23 /\ mi <= 59 /\ ss <= 59)
                       \/ (hh = 24 /\ mi = 0 /\ ss = 0)
         IN  IF m < 1 \/ m > 12 \/ d < 1 \/ d > 31 \/ ~okTime THEN InvalidDate
             ELSE IF hh = 24
                  THEN [valid |-> TRUE, day |-> DaysFromCivil(y, m, d) + 1, ms |-> 0]
                  ELSE [valid |-> TRUE, day |-> DaysFromCivil(y, m, d),
                        ms |-> ((hh * 60 + mi) * 60 + ss) * 1000]

parseCertificateDate(dateString, isNotAfter) ==
    LET seconds == IF isNotAfter THEN ":59" ELSE ":00"
        isoString == replace(dateString, " ", "T") \o seconds \o "Z"
    IN  DateParse(isoString)

\* mutant: the operands of the comparison are swapped
TimeLess_Swapped(a, b) == b.day < a.day \/ (b.day = a.day /\ b.ms < a.ms)

\* a < b on instants
TimeLess(a, b) == a.day < b.day \/ (a.day = b.day /\ a.ms < b.ms)

\* (a - b) / MILLISECONDS_PER_DAY as whole days (the floor) and the
\* milliseconds left over
DaysBetween(a, b) ==
    IF a.ms >= b.ms
    THEN [whole |-> a.day - b.day, rest |-> a.ms - b.ms]
    ELSE [whole |-> a.day - b.day - 1, rest |-> a.ms - b.ms + MILLISECONDS_PER_DAY]

\* mutant: a certificate with exactly maxDays left is not within the threshold
WithinThreshold_Strict(du, maxDays) ==
    /\ (du.whole > 0 \/ (du.whole = 0 /\ du.rest > 0))
    /\ du.whole < maxDays

\* daysUntilExpiry > 0 && daysUntilExpiry <= maxDays
WithinThreshold(du, maxDays) ==
    /\ (du.whole > 0 \/ (du.whole = 0 /\ du.rest > 0))
    /\ (du.whole < maxDays \/ (du.whole = maxDays /\ du.rest = 0))

Pad(n, width) ==
    LET str == ToString(n)
    IN  IF Len(str) >= width THEN str
        ELSE SubSeq("000", 1, width - Len(str)) \o str

\* Date.prototype.toISOString, for years 0000 to 9999
toISOString(t) ==
    LET z == t.day + 719468
        era == z \div 146097
        doe == z - era * 146097
        yoe == (doe - doe \div 1460 + doe \div 36524 - doe \div 146096) \div 365
        doy == doe - (365 * yoe + yoe \div 4 - yoe \div 100)
        mp == (5 * doy + 2) \div 153
        d == doy - (153 * mp + 2) \div 5 + 1
        m == IF mp < 10 THEN mp + 3 ELSE mp - 9
        y == yoe + era * 400 + (IF m <= 2 THEN 1 ELSE 0)
        secs == t.ms \div 1000
    IN  Pad(y, 4) \o "-" \o Pad(m, 2) \o "-" \o Pad(d, 2) \o "T"
            \o Pad(secs \div 3600, 2) \o ":" \o Pad((secs \div 60) % 60, 2) \o ":"
            \o Pad(secs % 60, 2) \o "." \o Pad(t.ms % 1000, 3) \o "Z"

\* the minute-precision text YYYY-MM-DD HH:mm of an instant, seconds dropped
formatDate(t) ==
    LET iso == toISOString(t)
    IN  SubSeq(iso, 1, 10) \o " " \o SubSeq(iso, 12, 16)

----------------------------------------------------------------------------
(* Certificate expiry rule *)

IsNotBefore(item) == item.id = Str("cert_notBefore")
IsNotAfter(item) == item.id = Str("cert_notAfter")

CertDateDetails(notBefore, notAfter, ip) ==
    [notBefore |-> notBefore, notAfter |-> notAfter, ip |-> ip]

CertTimeDetails(notBefore, notAfter, t, ip) ==
    [notBefore |-> notBefore, notAfter |-> notAfter, currentTime |-> toISOString(t), ip |-> ip]

CertDaysDetails(notBefore, notAfter, du, maxDays, ip) ==
    [notBefore |-> notBefore, notAfter |-> notAfter, daysUntilExpiry |-> du.whole,
     maxDays |-> maxDays, ip |-> ip]

NotYetValidMessage(notBefore, ipSuffix) ==
    "Certificate is not yet valid (notBefore: " \o notBefore \o ")" \o ipSuffix

ExpiredMessage(notAfter, ipSuffix) ==
    "Certificate has expired (notAfter: " \o notAfter \o ")" \o ipSuffix

ExpiresInMessage(du, maxDays, notAfter, ipSuffix) ==
    "Certificate expires in " \o ToString(du.whole) \o " days (threshold: "
        \o ToString(maxDays) \o " days, notAfter: " \o notAfter \o ")" \o ipSuffix

getCertificateExpiryResults(rules, items, t) ==
    IF rules.maxCertificateExpiry.t = "undefined" THEN <<>>
    ELSE LET maxDays == rules.maxCertificateExpiry.n
             b == find(items, IsNotBefore)
             a == find(items, IsNotAfter)
         IN
    IF b = 0 \/ a = 0 THEN <<>>
    ELSE IF ~Truthy(items[b].finding) \/ ~Truthy(items[a].finding) THEN <<>>
    ELSE LET notBefore == items[b].finding.s
             notAfter == items[a].finding.s
             ip == items[a].ip
             ipSuffix == formatIpSuffix(ip)
             notBeforeDate == parseCertificateDate(notBefore, FALSE)
             notAfterDate == parseCertificateDate(notAfter, TRUE)
             du == DaysBetween(notAfterDate, t)
         IN
    IF ~notBeforeDate.valid \/ ~notAfterDate.valid THEN
        << [rule |-> "certificate-expiry", passed |-> FALSE,
            message |-> "Invalid certificate date format" \o ipSuffix,
            details |-> CertDateDetails(notBefore, notAfter, ip)] >>
    ELSE IF TimeLess(t, notBeforeDate) THEN
        << [rule |-> "certificate-expiry", passed |-> FALSE,
            message |-> NotYetValidMessage(notBefore, ipSuffix),
            details |-> CertTimeDetails(notBefore, notAfter, t, ip)] >>
    ELSE IF TimeLess(notAfterDate, t) THEN
        << [rule |-> "certificate-expiry", passed |-> FALSE,
            message |-> ExpiredMessage(notAfter, ipSuffix),
            details |-> CertTimeDetails(notBefore, notAfter, t, ip)] >>
    ELSE IF WithinThreshold(du, maxDays) THEN
        << [rule |-> "certificate-expiry", passed |-> FALSE,
            message |-> ExpiresInMessage(du, maxDays, notAfter, ipSuffix),
            details |-> CertDaysDetails(notBefore, notAfter, du, maxDays, ip)] >>
    ELSE
        << [rule |-> "certificate-expiry", passed |-> TRUE,
            message |-> "Certificate is valid and expires in " \o ToString(du.whole)
                        \o " days (threshold: " \o ToString(maxDays) \o " days)" \o ipSuffix,
            details |-> CertDaysDetails(notBefore, notAfter, du, maxDays, ip)] >>

\* mutant: violations-only mode stops at the first failure, as full mode does
checkCertificateExpiry_FirstOnly(rules, items, t) ==
    LET failing == SelectSeq(getCertificateExpiryResults(rules, items, t),
                             LAMBDA r : ~r.passed)
    IN  [i \in 1..Len(failing) |->
            [rule |-> failing[i].rule, message |-> failing[i].message,
             details |-> failing[i].details]]

checkCertificateExpiry(rules, items, t) ==
    IF rules.maxCertificateExpiry.t = "undefined" THEN <<>>
    ELSE LET maxDays == rules.maxCertificateExpiry.n
             b == find(items, IsNotBefore)
             a == find(items, IsNotAfter)
         IN
    IF b = 0 \/ a = 0 THEN <<>>
    ELSE IF ~Truthy(items[b].finding) \/ ~Truthy(items[a].finding) THEN <<>>
    ELSE LET notBefore == items[b].finding.s
             notAfter == items[a].finding.s
             ip == items[a].ip
             ipSuffix == formatIpSuffix(ip)
             notBeforeDate == parseCertificateDate(notBefore, FALSE)
             notAfterDate == parseCertificateDate(notAfter, TRUE)
             du == DaysBetween(notAfterDate, t)
         IN
    IF ~notBeforeDate.valid \/ ~notAfterDate.valid THEN
        << [rule |-> "certificate-expiry",
            message |-> "Invalid certificate date format" \o ipSuffix,
            details |-> CertDateDetails(notBefore, notAfter, ip)] >>
    ELSE
        (IF TimeLess(t, notBeforeDate)
         THEN << [rule |-> "certificate-expiry",
                  message |-> NotYetValidMessage(notBefore, ipSuffix),
                  details |-> CertTimeDetails(notBefore, notAfter, t, ip)] >>
         ELSE <<>>)
        \o
        (IF TimeLess(notAfterDate, t)
         THEN << [rule |-> "certificate-expiry",
                  message |-> ExpiredMessage(notAfter, ipSuffix),
                  details |-> CertTimeDetails(notBefore, notAfter, t, ip)] >>
         ELSE <<>>)
        \o
        (IF WithinThreshold(du, maxDays)
         THEN << [rule |-> "certificate-expiry",
                  message |-> ExpiresInMessage(du, maxDays, notAfter, ipSuffix),
                  details |-> CertDaysDetails(notBefore, notAfter, du, maxDays, ip)] >>
         ELSE <<>>)

----------------------------------------------------------------------------
(* Entry points *)

\* mutant: the guard `if (!results) return` instead of Array.isArray
IsArray_Falsy(input) == input.kind \notin {"null", "undefined"}

\* Array.isArray(results)
IsArray(input) == input.kind = "array"

\* results.find and results.filter are functions: only an array has them, on
\* any other value the call raises a TypeError
HasArrayMethods(input) == input.kind = "array"

Returned(list) == [threw |-> FALSE, list |-> list]
Thrown == [threw |-> TRUE, list |-> <<>>]

\* the conditions under which audit and getAuditResults run each rule
GradeActive(rules) == Truthy(rules.minGrade)
TlsActive(rules) == Truthy(rules.minTlsVersion)
CiphersActive(rules) == rules.blockedCiphers.t = "array" /\ Len(rules.blockedCiphers.items) > 0
\* mutant: forward secrecy is checked unless it is switched off (a default of true)
ForwardSecrecyActive_Default(rules) ==
    ~(rules.requireForwardSecrecy.t = "boolean" /\ ~rules.requireForwardSecrecy.b)

ForwardSecrecyActive(rules) == rules.requireForwardSecrecy.t = "boolean" /\ rules.requireForwardSecrecy.b
CertificateActive(rules) == rules.maxCertificateExpiry.t # "undefined"

AnyActive(rules) ==
    \/ GradeActive(rules) \/ TlsActive(rules) \/ CiphersActive(rules)
    \/ ForwardSecrecyActive(rules) \/ CertificateActive(rules)

\* the array element null, written as a record so that every element has
\* the same fields
NullElement == [id |-> Null, ip |-> Null, severity |-> Null, finding |-> Null]

\* results.find(item => Match(item)) reads a property of null or calls a
\* method a value lacks: the callback reaches an item that is Bad before any
\* item matches
FindRaises(items, Match(_), Bad(_)) ==
    \E i \in 1..Len(items) : Bad(items[i]) /\ \A j \in 1..(i - 1) : ~Match(items[j])

IsNullElement(item) == item = NullElement

\* a truthy id that is no string has no startsWith and no toLowerCase
IdNotString(item) == IsNullElement(item) \/ (Truthy(item.id) /\ ~IsString(item.id))

\* a finding that reaches finding.toLowerCase() or dateString.replace()
\* without being a string
FindingNotString(item) == Truthy(item.finding) /\ ~IsString(item.finding)

\* whether evaluating the active rules raises a TypeError
Raises(rules, items, fullMode) ==
    /\ \E i \in 1..Len(items) :
          IdNotString(items[i]) \/ FindingNotString(items[i])
    /\ \/ GradeActive(rules) /\ FindRaises(items, IsOverallGrade, IsNullElement)
       \/ /\ TlsActive(rules)
          /\ \E i \in 1..Len(items) :
                \/ IsNullElement(items[i])
                \/ IsString(items[i].id) /\ IsTlsProtocol(items[i]) /\ FindingNotString(items[i])
       \/ /\ CiphersActive(rules)
          /\ \E i \in 1..Len(items) :
                \/ IdNotString(items[i])
                \/ /\ IsCipherItem(items[i]) /\ FindingNotString(items[i])
                   /\ (fullMode =>
                          FirstBlocked(replace(items[i].id.s, "cipherlist_", ""),
                                       rules.blockedCiphers.items) # 0)
       \/ ForwardSecrecyActive(rules) /\ FindRaises(items, IsPfsItem, IdNotString)
       \/ /\ CertificateActive(rules)
          /\ \/ FindRaises(items, IsNotBefore, IsNullElement)
             \/ FindRaises(items, IsNotAfter, IsNullElement)
             \/ LET b == find(items, IsNotBefore)
                    a == find(items, IsNotAfter)
                IN  /\ b # 0 /\ a # 0
                    /\ Truthy(items[b].finding) /\ Truthy(items[a].finding)
                    /\ (~IsString(items[b].finding) \/ ~IsString(items[a].finding))

\* audit(results): the violations, in the order the rules are checked
audit(rules, input, t) ==
    IF ~IsArray(input) THEN Returned(<<>>)
    ELSE IF AnyActive(rules) /\ ~HasArrayMethods(input) THEN Thrown
    ELSE IF Raises(rules, input.items, FALSE) THEN Thrown
    ELSE Returned(
         (IF GradeActive(rules) THEN checkOverallGrade(rules, input.items) ELSE <<>>)
      \o (IF TlsActive(rules) THEN checkTlsVersion(rules, input.items) ELSE <<>>)
      \o (IF CiphersActive(rules) THEN checkBlockedCiphers(rules, input.items) ELSE <<>>)
      \o (IF ForwardSecrecyActive(rules) THEN checkForwardSecrecy(input.items) ELSE <<>>)
      \o (IF CertificateActive(rules)
          THEN checkCertificateExpiry(rules, input.items, t) ELSE <<>>))

\* mutant: the forward secrecy results are pushed before the TLS version results
getAuditResults_Reordered(rules, input, t) ==
    IF ~IsArray(input) THEN Returned(<<>>)
    ELSE IF AnyActive(rules) /\ ~HasArrayMethods(input) THEN Thrown
    ELSE IF Raises(rules, input.items, TRUE) THEN Thrown
    ELSE Returned(
         (IF GradeActive(rules) THEN getOverallGradeResults(rules, input.items) ELSE <<>>)
      \o (IF ForwardSecrecyActive(rules) THEN getForwardSecrecyResults(input.items) ELSE <<>>)
      \o (IF TlsActive(rules) THEN getTlsVersionResults(rules, input.items) ELSE <<>>)
      \o (IF CiphersActive(rules) THEN getBlockedCipherResults(rules, input.items) ELSE <<>>)
      \o (IF CertificateActive(rules)
          THEN getCertificateExpiryResults(rules, input.items, t) ELSE <<>>))

\* getAuditResults(results): passing and failing results, in the same order
getAuditResults(rules, input, t) ==
    IF ~IsArray(input) THEN Returned(<<>>)
    ELSE IF AnyActive(rules) /\ ~HasArrayMethods(input) THEN Thrown
    ELSE IF Raises(rules, input.items, TRUE) THEN Thrown
    ELSE Returned(
         (IF GradeActive(rules) THEN getOverallGradeResults(rules, input.items) ELSE <<>>)
      \o (IF TlsActive(rules) THEN getTlsVersionResults(rules, input.items) ELSE <<>>)
      \o (IF CiphersActive(rules) THEN getBlockedCipherResults(rules, input.items) ELSE <<>>)
      \o (IF ForwardSecrecyActive(rules) THEN getForwardSecrecyResults(input.items) ELSE <<>>)
      \o (IF CertificateActive(rules)
          THEN getCertificateExpiryResults(rules, input.items, t) ELSE <<>>))

----------------------------------------------------------------------------
(* Inputs *)

MaxFindings == 3
MaxRuleFindings == 2
MaxTicks == 1

Absent == [t |-> "undefined", items |-> <<>>]
List(items) == [t |-> "array", items |-> items]
NoBool == [t |-> "undefined", b |-> FALSE]
Bool(b) == [t |-> "boolean", b |-> b]
NoNum == [t |-> "undefined", n |-> 0]
Num(n) == [t |-> "number", n |-> n]

Rules(minGrade, minTlsVersion, blockedCiphers, requireForwardSecrecy, maxCertificateExpiry) ==
    [minGrade |-> minGrade, minTlsVersion |-> minTlsVersion,
     blockedCiphers |-> blockedCiphers, requireForwardSecrecy |-> requireForwardSecrecy,
     maxCertificateExpiry |-> maxCertificateExpiry]

\* the policy {} in which nothing is configured
EmptyRules == Rules(Undefined, Undefined, Absent, NoBool, NoNum)

Item(id, ip, severity, finding) ==
    [id |-> Str(id), ip |-> ip, severity |-> severity, finding |-> finding]

ArrayOf(items) == [kind |-> "array", items |-> items]
NotArray(kind) == [kind |-> kind, items |-> <<>>]

\* the parsed JSON values that are no array
NonArrays == {NotArray(k) : k \in {"object", "null", "undefined", "number", "string"}}

\* every sequence of at most n elements of S
SeqsUpTo(S, n) == UNION {[1..k -> S] : k \in 0..n}

\* the sequences of at most n elements of S that repeat none
DistinctSeqsUpTo(S, n) == {q \in SeqsUpTo(S, n) : \A i, j \in 1..Len(q) : q[i] = q[j] => i = j}

Instant(day, ms) == [day |-> day, ms |-> ms]

\* the instant ms milliseconds after t (ms below one day)
Later(t, ms) ==
    IF t.ms + ms < MILLISECONDS_PER_DAY THEN [day |-> t.day, ms |-> t.ms + ms]
    ELSE [day |-> t.day + 1, ms |-> t.ms + ms - MILLISECONDS_PER_DAY]

\* one finding of every rule family, as testssl.sh reports them
MixedItems ==
    { Item("overall_grade", Undefined, Str("MEDIUM"), Str("B")),
      Item("TLS1", Str("h/1.2.3.4"), Str("LOW"), Str("offered (deprecated)")),
      Item("cipherlist_RC4", Str("h/1.2.3.4"), Str("HIGH"), Str("offered")),
      Item("PFS", Undefined, Str("HIGH"), Str("not offered")),
      Item("cert_notBefore", Str("h/1.2.3.4"), Str("INFO"), Str("2026-01-01 00:00")),
      Item("cert_notAfter", Str("h/1.2.3.4"), Str("OK"), Str("2026-12-31 23:59")) }

\* every choice of configured rules, and policies whose fields are present but falsy
MixedRules ==
    { Rules(g, v, c, f, m) :
        g \in {Undefined, Str("A")}, v \in {Undefined, Str("1.2")},
        c \in {Absent, List(<<"RC4">>)}, f \in {NoBool, Bool(TRUE)},
        m \in {NoNum, Num(30)} }
    \cup { Rules(Str(""), Str(""), List(<<>>), Bool(FALSE), NoNum),
           Rules(Str("C"), Str("1"), List(<<"DES", "rc4">>), Bool(TRUE), Num(0)) }

\* 2026-12-15T12:00:00.000Z and the last millisecond before the notAfter minute ends
MixedNows == { Instant(DaysFromCivil(2026, 12, 15), 12 * 3600000),
               Instant(DaysFromCivil(2026, 12, 31), MILLISECONDS_PER_DAY - 1001) }

\* 2026-12-15T12:00:00.000Z
Noon == Instant(DaysFromCivil(2026, 12, 15), 12 * 3600000)

\* grade findings: the nine letters, an unknown letter, an empty text, and a
\* finding of another rule
GradeTexts == {"A+", "A", "A-", "B", "C", "D", "E", "F", "T"}

GradeItems ==
    { Item("overall_grade", Undefined, Str("OK"), Str(g)) : g \in GradeTexts \cup {"Z", ""} }
    \cup { Item("TLS1", Undefined, Str("LOW"), Str("offered")) }

GradeRules == { Rules(Str(g), Undefined, Absent, NoBool, NoNum) : g \in GradeTexts \cup {"Z"} }

\* protocol findings: the same protocol for two resolved IPs, protocols
\* offered and not offered on both sides of the minimum, a record with an
\* empty finding, a protocol id outside the TLS1 pattern, another rule's finding
TlsItems ==
    { Item("TLS1", Str("h/1.2.3.4"), Str("LOW"), Str("offered (deprecated)")),
      Item("TLS1", Str("h/5.6.7.8"), Str("LOW"), Str("offered (deprecated)")),
      Item("TLS1", Undefined, Str("OK"), Str("not offered")),
      Item("TLS1_1", Str("h/1.2.3.4"), Str("LOW"), Str("offered")),
      Item("TLS1_2", Str("h/1.2.3.4"), Str("OK"), Str("offered")),
      Item("TLS1_2", Str("h/5.6.7.8"), Str("OK"), Str("not offered")),
      Item("TLS1_3", Undefined, Str("OK"), Str("offered")),
      Item("TLS1_3", Str("h/1.2.3.4"), Str("OK"), Str("not offered")),
      Item("TLS1_2", Undefined, Str("OK"), Str("")),
      Item("TLS1_1", Undefined, Str("OK"), Undefined),
      Item("SSLv3", Undefined, Str("CRITICAL"), Str("offered")),
      Item("overall_grade", Undefined, Str("OK"), Str("B")) }

TlsRules ==
    { Rules(Undefined, Str(v), Absent, NoBool, NoNum) : v \in {"1.1", "1.2", "1.3", "TLSv1.2"} }

\* cipher-list findings: names matched by one pattern, by two, by none, in
\* lower case, with an empty or missing finding, and an id without the prefix
CipherItems ==
    { Item("cipherlist_RC4", Str("h/1.2.3.4"), Str("HIGH"), Str("offered")),
      Item("cipherlist_RC4", Str("h/1.2.3.4"), Str("OK"), Str("not offered")),
      Item("cipherlist_3DES_IDEA", Undefined, Str("MEDIUM"), Str("offered")),
      Item("cipherlist_3DES_IDEA", Str("h/5.6.7.8"), Str("OK"), Str("not offered")),
      Item("cipherlist_AES", Undefined, Str("OK"), Str("offered")),
      Item("cipherlist_rc4_md5", Undefined, Str("HIGH"), Str("offered")),
      Item("cipherlist_NULL", Undefined, Str("OK"), Str("")),
      Item("cipherlist_EXPORT", Undefined, Str("OK"), Undefined),
      Item("cipher_RC4", Undefined, Str("HIGH"), Str("offered")),
      Item("TLS1", Undefined, Str("LOW"), Str("offered")) }

CipherRules ==
    { Rules(Undefined, Undefined, List(c), NoBool, NoNum) :
        c \in { <<"RC4">>, <<"DES", "3DES">>, <<"3DES", "DES">>, <<"rc4", "des">>,
                <<"NULL", "EXPORT">> } }

\* forward secrecy findings: every severity the rule tells apart, ids that
\* hold pfs in either case, and ids that do not
ForwardSecrecyItems ==
    { Item("PFS", Str("h/1.2.3.4"), Str("HIGH"), Str("not offered")),
      Item("PFS", Undefined, Str("OK"), Str("offered")),
      Item("PFS", Undefined, Str("INFO"), Str("offered")),
      Item("PFS", Undefined, Str(""), Str("offered")),
      Item("PFS", Undefined, Undefined, Str("offered")),
      Item("pfs_ciphers", Str("h/5.6.7.8"), Str("LOW"), Str("weak")),
      Item("cipher_PfS_order", Undefined, Str("ok"), Str("offered")),
      Item("FS", Undefined, Str("HIGH"), Str("not offered")),
      Item("TLS1", Undefined, Str("LOW"), Str("offered")) }

ForwardSecrecyRules ==
    { Rules(Undefined, Undefined, Absent, f, NoNum) : f \in {Bool(TRUE), Bool(FALSE), NoBool} }

\* certificate date findings in the form YYYY-MM-DD HH:mm
CertItems ==
    { Item("cert_notBefore", Str("h/1.2.3.4"), Str("INFO"), Str("2026-01-01 00:00")),
      Item("cert_notBefore", Undefined, Str("INFO"), Str("2026-12-20 00:00")),
      Item("cert_notAfter", Str("h/1.2.3.4"), Str("OK"), Str("2026-12-31 23:59")),
      Item("cert_notAfter", Undefined, Str("OK"), Str("2026-12-16 12:00")),
      Item("TLS1", Undefined, Str("LOW"), Str("offered")) }

CertRules == { Rules(Undefined, Undefined, Absent, NoBool, Num(m)) : m \in {0, 1, 14, 30} }

Dec(d) == DaysFromCivil(2026, 12, d)
TimeOfDay(h, m, sec, ms) == ((h * 60 + m) * 60 + sec) * 1000 + ms

\* instants just before the boundaries the rule compares against
CertNows ==
    { Instant(DaysFromCivil(2025, 12, 31), TimeOfDay(23, 59, 59, 999)),
      Instant(Dec(1), TimeOfDay(23, 59, 58, 999)),
      Instant(Dec(15), TimeOfDay(12, 0, 58, 999)),
      Instant(Dec(16), TimeOfDay(11, 59, 59, 999)),
      Instant(Dec(16), TimeOfDay(12, 0, 0, 0)),
      Instant(Dec(16), TimeOfDay(12, 0, 58, 999)),
      Instant(Dec(16), TimeOfDay(12, 0, 59, 0)),
      Instant(Dec(16), TimeOfDay(12, 0, 59, 999)),
      Instant(Dec(19), TimeOfDay(8, 0, 0, 0)),
      Instant(Dec(31), TimeOfDay(23, 59, 59, 999)) }

\* a certificate issued one year before t that expires 15 days after t, its
\* dates written to the minute
ExpiringCertificate(t) ==
    ArrayOf(<< Item("cert_notBefore", Str("example.com/1.2.3.4"), Str("INFO"),
                    Str(formatDate(Instant(t.day - 365, t.ms)))),
               Item("cert_notAfter", Str("example.com/1.2.3.4"), Str("WARN"),
                    Str(formatDate(Instant(t.day + 15, t.ms)))) >>)

ExpiringRules == Rules(Undefined, Undefined, Absent, NoBool, Num(30))

\* current instants at the start, the middle and the end of a minute
ExpiringNows ==
    { Instant(d, TimeOfDay(hm[1], hm[2], sec, ms)) :
        d \in {DaysFromCivil(2026, 2, 14), Dec(16)},
        hm \in {<<12, 0>>, <<23, 59>>},
        sec \in {0, 30, 59},
        ms \in {0, 1, 999} }

\* certificate date findings whose text is well-formed, unparseable, empty
\* or missing
DateItems ==
    { Item("cert_notBefore", Str("h/1.2.3.4"), Str("INFO"), Str("2026-01-01 00:00")),
      Item("cert_notBefore", Undefined, Str("INFO"), Str("2026-13-01 00:00")),
      Item("cert_notBefore", Undefined, Str("INFO"), Undefined),
      Item("cert_notAfter", Str("h/1.2.3.4"), Str("OK"), Str("2026-12-31 23:59")),
      Item("cert_notAfter", Undefined, Str("OK"), Str("not-a-date")),
      Item("cert_notAfter", Undefined, Str("OK"), Str("")),
      Item("some_other_item", Undefined, Str("OK"), Str("test")) }

DateRules == { Rules(Undefined, Undefined, Absent, NoBool, Num(30)) }

DateNows == { Instant(Dec(16), TimeOfDay(12, 0, 0, 0)),
              Instant(DaysFromCivil(2027, 1, 1), TimeOfDay(0, 0, 0, 0)) }

\* finding texts put together from a lead, a word and a trailing annotation
OfferedLeads == {"", "not ", "NOT ", "un", "is ", "_"}
OfferedWords == {"offered", "Offered", "OFFERED", "offer", "offered2"}
OfferedTrails ==
    {"", " (deprecated)", " + downgraded to weaker protocol", "_x", ", Not Offered", "."}

OfferedTexts ==
    {lead \o word \o trail : lead \in OfferedLeads, word \in OfferedWords, trail \in OfferedTrails}

\* one TLS 1.0 finding with each text, with empty text, and with no text
OfferedInputs ==
    { ArrayOf(<<Item("TLS1", Undefined, Str("LOW"), f)>>) :
        f \in {Str(text) : text \in OfferedTexts} \cup {Str(""), Undefined} }

OfferedRules == { Rules(Undefined, Str("1.2"), Absent, NoBool, NoNum) }

\* offered protocols whose ids match the TLS pattern, and ids that do not
TlsIdTexts ==
    {"TLS1", "TLS1_0", "TLS1_2", "TLS1_3", "TLS1_10",
     "SSLv3", "TLS1_", "tls1_2", "TLS1_2x", "TLS1.2", "xTLS1_2", "TLS12", "TLS1_2 "}

TlsIdItems == { Item(id, Undefined, Str("LOW"), Str("offered")) : id \in TlsIdTexts }

TlsIdRules == { Rules(Undefined, Str(v), Absent, NoBool, NoNum) : v \in {"1.1", "1.3"} }

\* minimum and actual grades inside and outside the vocabulary: another
\* letter, another case, padded text, and names an object literal inherits
GradeNameRules ==
    { Rules(Str(g), Undefined, Absent, NoBool, NoNum) :
        g \in {"B", "A+", "Z", "a", "constructor", "toString"} }

GradeNameItems ==
    { Item("overall_grade", Undefined, Str("OK"), f) :
        f \in { Str(g) : g \in {"B", "F", "Z", "b", " B", "constructor", "toString",
                                "__proto__", ""} } \cup {Undefined} }
    \cup { Item("TLS1", Undefined, Str("LOW"), Str("offered")) }

\* array elements of every shape: well-formed records, records without the
\* optional fields or without an id, a number for an id or for a finding,
\* and null
ShapeItems ==
    { Item("overall_grade", Undefined, Str("OK"), Str("B")),
      Item("PFS", Undefined, Str("HIGH"), Str("not offered")),
      Item("cert_notBefore", Undefined, Str("INFO"), Str("2026-01-01 00:00")),
      Item("TLS1_2", Undefined, Undefined, Undefined),
      [id |-> Undefined, ip |-> Undefined, severity |-> Str("LOW"), finding |-> Str("offered")],
      [id |-> NumberValue("7"), ip |-> Undefined, severity |-> Str("LOW"),
       finding |-> Str("offered")],
      Item("TLS1", Undefined, Str("LOW"), NumberValue("1")),
      Item("cipherlist_AES", Undefined, Str("LOW"), NumberValue("1")),
      Item("cert_notAfter", Undefined, Str("OK"), NumberValue("20261231")),
      NullElement }

\* each rule on its own, and all together
ShapeRules ==
    { Rules(Str("B"), Undefined, Absent, NoBool, NoNum),
      Rules(Undefined, Str("1.2"), Absent, NoBool, NoNum),
      Rules(Undefined, Undefined, List(<<"RC4">>), NoBool, NoNum),
      Rules(Undefined, Undefined, Absent, Bool(TRUE), NoNum),
      Rules(Undefined, Undefined, Absent, NoBool, Num(30)),
      Rules(Str("B"), Str("1.2"), List(<<"RC4">>), Bool(TRUE), Num(30)) }

\* for each rule but the certificate rule a finding that fails and one that
\* passes
ModeItems ==
    { Item("overall_grade", Undefined, Str("MEDIUM"), Str("B")),
      Item("TLS1", Str("h/1.2.3.4"), Str("LOW"), Str("offered (deprecated)")),
      Item("TLS1", Str("h/5.6.7.8"), Str("OK"), Str("not offered")),
      Item("TLS1_3", Undefined, Str("OK"), Str("offered")),
      Item("cipherlist_RC4", Str("h/1.2.3.4"), Str("HIGH"), Str("offered")),
      Item("cipherlist_RC4", Str("h/5.6.7.8"), Str("OK"), Str("not offered")),
      Item("PFS", Undefined, Str("HIGH"), Str("not offered")),
      Item("PFS", Undefined, Str("OK"), Str("offered")) }

\* policies without maxCertificateExpiry: the four other rules together, with
\* a minimum grade above and below the actual grade, and each rule alone
ModeRules ==
    { Rules(Str("A"), Str("1.2"), List(<<"RC4">>), Bool(TRUE), NoNum),
      Rules(Str("C"), Str("1.2"), List(<<"RC4">>), Bool(TRUE), NoNum),
      Rules(Str("A"), Undefined, Absent, NoBool, NoNum),
      Rules(Undefined, Str("1.2"), Absent, NoBool, NoNum),
      Rules(Undefined, Undefined, List(<<"RC4">>), NoBool, NoNum),
      Rules(Undefined, Undefined, Absent, Bool(TRUE), NoNum) }

\* findings of the four annotated rules with an ip, with an empty ip and
\* without one
IpItems ==
    { Item("TLS1", Str("h/1.2.3.4"), Str("LOW"), Str("offered")),
      Item("TLS1", Str(""), Str("LOW"), Str("offered")),
      Item("TLS1_3", Undefined, Str("OK"), Str("offered")),
      Item("cipherlist_RC4", Str("h/5.6.7.8"), Str("HIGH"), Str("offered")),
      Item("cipherlist_RC4", Undefined, Str("OK"), Str("not offered")),
      Item("PFS", Str("h/1.2.3.4"), Str("HIGH"), Str("not offered")),
      Item("PFS", Undefined, Str("OK"), Str("offered")),
      Item("cert_notBefore", Str("other/9.9.9.9"), Str("INFO"), Str("2026-01-01 00:00")),
      Item("cert_notAfter", Str("h/1.2.3.4"), Str("OK"), Str("2026-12-31 23:59")),
      Item("cert_notAfter", Undefined, Str("OK"), Str("2026-12-31 23:59")) }

\* the four annotated rules together; the certificate is inside the threshold
\* of 30 days and outside that of 14
IpRules ==
    { Rules(Undefined, Str("1.2"), List(<<"RC4">>), Bool(TRUE), Num(m)) : m \in {14, 30} }

\* a result object of testssl.sh, { scanResult: [...] }, as the parsed JSON
WrappedResult(scanResult) == [kind |-> "object", items |-> <<>>, scanResult |-> scanResult]

\* such an object as an element of an array: it has none of the fields of a
\* scan item
WrappedElement(scanResult) ==
    [id |-> Undefined, ip |-> Undefined, severity |-> Undefined, finding |-> Undefined,
     scanResult |-> scanResult]

WrappedItems ==
    { Item("TLS1_0", Undefined, Str("OK"), Str("offered")),
      Item("TLS1", Undefined, Str("LOW"), Str("offered")),
      Item("TLS1_2", Undefined, Str("OK"), Str("offered")),
      Item("cipherlist_RC4", Undefined, Str("HIGH"), Str("offered")) }

\* scan items handed over bare, inside one result object, and inside result
\* objects of an array
WrappedInputs ==
    UNION { { ArrayOf(q), WrappedResult(q), ArrayOf(<< WrappedElement(q) >>),
              ArrayOf(<< WrappedElement(q), WrappedElement(q) >>) } :
            q \in SeqsUpTo(WrappedItems, MaxRuleFindings) }

WrappedRules ==
    { Rules(Undefined, Str("1.2"), Absent, NoBool, NoNum),
      Rules(Undefined, Str("1.2"), List(<<"RC4", "DES", "3DES">>), Bool(TRUE), NoNum) }

----------------------------------------------------------------------------
(* The action runner: rules file, result files, outputs *)

MaxFiles == 2

DEFAULT_RULES ==
    Rules(Undefined, Str("1.2"), List(<<"RC4", "DES", "3DES", "NULL", "EXPORT", "anon">>),
          Bool(TRUE), Num(14))

\* a file of the workspace: whether it exists (for a matched file: whether
\* it can be read), whether its text is JSON, and the value it parses to
NoFile(v) == [exists |-> FALSE, json |-> FALSE, value |-> v]
BadJson(v) == [exists |-> TRUE, json |-> FALSE, value |-> v]
JsonFile(v) == [exists |-> TRUE, json |-> TRUE, value |-> v]

LoadReturned(rules) == [threw |-> FALSE, rules |-> rules]
LoadThrown == [threw |-> TRUE, rules |-> EmptyRules]

\* await loadRulesConfig(configPath)
loadRulesConfig(configPath, file) ==
    IF configPath = "" \/ ~file.exists THEN LoadReturned(DEFAULT_RULES)
    ELSE IF ~file.json THEN LoadThrown
    ELSE LoadReturned(file.value)

\* the rules files: none, one that is no JSON, one that sets only
\* minTlsVersion, one that sets every rule
RulesFiles ==
    { NoFile(EmptyRules), BadJson(EmptyRules),
      JsonFile(Rules(Undefined, Str("1.3"), Absent, NoBool, NoNum)),
      JsonFile(Rules(Str("B"), Str("1.2"), List(<<"RC4">>), Bool(FALSE), Num(30))) }

\* the result files: unreadable, no JSON, the JSON null, an empty list, and
\* lists with passing and failing findings
ResultFiles ==
    { NoFile(ArrayOf(<<>>)), BadJson(ArrayOf(<<>>)), JsonFile(NotArray("null")),
      JsonFile(ArrayOf(<< NullElement >>)),
      JsonFile(ArrayOf(<< Item("PFS", Str("h/1.2.3.4"), Str("HIGH"), Str("not offered")) >>)),
      JsonFile(ArrayOf(<< Item("TLS1_3", Undefined, Str("OK"), Str("offered")),
                          Item("cert_notBefore", Undefined, Str("INFO"), Str("2026-01-01 00:00")),
                          Item("cert_notAfter", Undefined, Str("OK"), Str("2027-06-30 23:59")) >>)),
      JsonFile(ArrayOf(<< Item("TLS1", Undefined, Str("LOW"), Str("offered")),
                          Item("TLS1_3", Undefined, Str("OK"), Str("offered")),
                          Item("cipherlist_RC4", Undefined, Str("HIGH"), Str("offered")) >>)) }

OutputNames == {"violations-found", "violation-count", "summary"}

\* no output set yet
NoOutputs == [n \in OutputNames |-> ""]

\* the path of the k-th matched file
PathOf(k) == "results-" \o ToString(k) \o ".json"

\* the runner before run() is entered, and in the engine's own specifications
RunnerIdle ==
    /\ pc = "idle"
    /\ rulesConfigPath = ""
    /\ rulesFile = NoFile(EmptyRules)
    /\ failOnViolationInput = ""
    /\ files = <<>>
    /\ index = 0
    /\ totalViolations = 0
    /\ annotations = <<>>
    /\ outputs = NoOutputs
    /\ failed = FALSE

----------------------------------------------------------------------------
(* The engine as a state machine *)

Start(rulesSet, inputs, nows) ==
    /\ config \in rulesSet
    /\ results \in inputs
    /\ now \in nows
    /\ ticks = 0
    /\ call = "none"
    /\ callTime = now
    /\ threw = FALSE
    /\ out = <<>>
    /\ RunnerIdle

Init == Start(MixedRules, {ArrayOf(q) : q \in DistinctSeqsUpTo(MixedItems, MaxFindings)} \cup NonArrays,
              MixedNows)

\* mutant: the violations are kept in a field of the engine and pile up
\* from call to call
Audit_Accumulating ==
    /\ call' = "audit"
    /\ callTime' = now
    /\ LET r == audit(config, results, now)
       IN  threw' = r.threw /\ out' = (IF call = "audit" THEN out ELSE <<>>) \o r.list
    /\ UNCHANGED <<config, results, now, ticks, runner>>

\* const violations = engine.audit(results)
Audit ==
    /\ call' = "audit"
    /\ callTime' = now
    /\ LET r == audit(config, results, now)
       IN  threw' = r.threw /\ out' = r.list
    /\ UNCHANGED <<config, results, now, ticks, runner>>

\* mutant: the blocked patterns are upper-cased in place in the policy
GetAuditResults_Normalising ==
    /\ call' = "getAuditResults"
    /\ callTime' = now
    /\ LET r == getAuditResults(config, results, now)
       IN  threw' = r.threw /\ out' = r.list
    /\ config' = [config EXCEPT !.blockedCiphers.items =
                      [k \in 1..Len(config.blockedCiphers.items) |->
                          toUpperCase(config.blockedCiphers.items[k])]]
    /\ UNCHANGED <<results, now, ticks, runner>>

\* const auditResults = engine.getAuditResults(results)
GetAuditResults ==
    /\ call' = "getAuditResults"
    /\ callTime' = now
    /\ LET r == getAuditResults(config, results, now)
       IN  threw' = r.threw /\ out' = r.list
    /\ UNCHANGED <<config, results, now, ticks, runner>>

\* the clock advances by one millisecond
Tick ==
    /\ ticks < MaxTicks
    /\ ticks' = ticks + 1
    /\ now' = Later(now, 1)
    /\ UNCHANGED <<config, results, call, callTime, threw, out, runner>>

Next == Audit \/ GetAuditResults \/ Tick

Spec == Init /\ [][Next]_vars

\* the grade rule alone, over every pair of minimum and actual grade
InitGrade ==
    Start(GradeRules, {ArrayOf(q) : q \in SeqsUpTo(GradeItems, MaxRuleFindings)}, {Noon})

SpecGrade == InitGrade /\ [][Next]_vars

\* the TLS version rule alone
InitTls ==
    Start(TlsRules, {ArrayOf(q) : q \in SeqsUpTo(TlsItems, MaxRuleFindings)}, {Noon})

SpecTls == InitTls /\ [][Next]_vars

\* the blocked cipher rule alone
InitCipher ==
    Start(CipherRules, {ArrayOf(q) : q \in SeqsUpTo(CipherItems, MaxRuleFindings)}, {Noon})

SpecCipher == InitCipher /\ [][Next]_vars

\* the forward secrecy rule alone
InitForwardSecrecy ==
    Start(ForwardSecrecyRules,
          {ArrayOf(q) : q \in SeqsUpTo(ForwardSecrecyItems, MaxRuleFindings)}, {Noon})

SpecForwardSecrecy == InitForwardSecrecy /\ [][Next]_vars

\* the certificate expiry rule alone, with the clock near its boundaries
InitCert ==
    Start(CertRules, {ArrayOf(q) : q \in SeqsUpTo(CertItems, MaxRuleFindings)}, CertNows)

SpecCert == InitCert /\ [][Next]_vars

\* a certificate built from the current instant to expire in 15 days
InitExpiring ==
    /\ now \in ExpiringNows
    /\ config = ExpiringRules
    /\ results = ExpiringCertificate(now)
    /\ ticks = 0
    /\ call = "none"
    /\ callTime = now
    /\ threw = FALSE
    /\ out = <<>>
    /\ RunnerIdle

SpecExpiring == InitExpiring /\ [][Next]_vars

\* the certificate expiry rule over well-formed and malformed date findings
InitDates ==
    Start(DateRules, {ArrayOf(q) : q \in SeqsUpTo(DateItems, MaxRuleFindings)}, DateNows)

SpecDates == InitDates /\ [][Next]_vars

\* the grade rule over grades inside and outside the vocabulary
InitGradeNames ==
    Start(GradeNameRules, {ArrayOf(q) : q \in SeqsUpTo(GradeNameItems, MaxRuleFindings)},
          {Noon})

SpecGradeNames == InitGradeNames /\ [][Next]_vars

\* every rule over array elements of every shape
InitShapes ==
    Start(ShapeRules, {ArrayOf(q) : q \in SeqsUpTo(ShapeItems, MaxRuleFindings)}, {Noon})

SpecShapes == InitShapes /\ [][Next]_vars

\* the four rules without a clock over findings that pass and that fail
InitModes ==
    Start(ModeRules, {ArrayOf(q) : q \in SeqsUpTo(ModeItems, MaxRuleFindings)}, {Noon})

SpecModes == InitModes /\ [][Next]_vars

\* the annotated rules over findings with and without an ip
InitIp == Start(IpRules, {ArrayOf(q) : q \in SeqsUpTo(IpItems, MaxRuleFindings)}, {Noon})

SpecIp == InitIp /\ [][Next]_vars

\* the TLS version rule over matching and non-matching protocol ids
InitTlsIds ==
    Start(TlsIdRules, {ArrayOf(q) : q \in SeqsUpTo(TlsIdItems, MaxRuleFindings)}, {Noon})

SpecTlsIds == InitTlsIds /\ [][Next]_vars

\* the certificate rule over findings that hold several certificates
InitCertificates ==
    Start({ Rules(Undefined, Undefined, Absent, NoBool, Num(m)) : m \in {1, 14} },
          {ArrayOf(q) : q \in DistinctSeqsUpTo(CertItems, MaxFindings)},
          { Instant(Dec(1), TimeOfDay(23, 59, 58, 999)), Instant(Dec(16), TimeOfDay(12, 0, 59, 999)),
            Instant(Dec(19), TimeOfDay(8, 0, 0, 0)) })

SpecCertificates == InitCertificates /\ [][Next]_vars

\* the TLS version rule under minimum versions that are no numbers
InitTlsTexts ==
    Start({ Rules(Undefined, Str(v), Absent, NoBool, NoNum) :
              v \in {"TLSv1.2", "v1.3", "one.two", "-", " ", "1.2"} },
          {ArrayOf(q) : q \in SeqsUpTo(TlsItems, MaxRuleFindings)}, {Noon})

SpecTlsTexts == InitTlsTexts /\ [][Next]_vars

\* scan items bare and wrapped in result objects
InitWrapped == Start(WrappedRules, WrappedInputs, {Noon})

SpecWrapped == InitWrapped /\ [][Next]_vars

\* this.isOffered(finding) on the text of the first finding
IsOffered ==
    /\ results.kind = "array" /\ Len(results.items) > 0
    /\ call' = "isOffered"
    /\ callTime' = now
    /\ threw' = FALSE
    /\ out' = << [rule |-> "isOffered", passed |-> isOffered(results.items[1].finding.s)] >>
    /\ UNCHANGED <<config, results, now, ticks, runner>>

\* the offered predicate, called directly and through the TLS version rule
InitOffered == Start(OfferedRules, OfferedInputs, {Noon})

NextOffered == IsOffered \/ Audit \/ GetAuditResults

SpecOffered == InitOffered /\ [][NextOffered]_vars

\* run() entered with its inputs read and the workspace as it is
InitRun ==
    /\ config = EmptyRules
    /\ results = ArrayOf(<<>>)
    /\ now = Noon
    /\ ticks = 0
    /\ call = "none"
    /\ callTime = now
    /\ threw = FALSE
    /\ out = <<>>
    /\ pc = "start"
    /\ rulesConfigPath \in {"", "rules.json"}
    /\ rulesFile \in RulesFiles
    /\ failOnViolationInput \in {"true", "false", "TRUE"}
    /\ files \in SeqsUpTo(ResultFiles, MaxFiles)
    /\ index = 0
    /\ totalViolations = 0
    /\ annotations = <<>>
    /\ outputs = NoOutputs
    /\ failed = FALSE

\* run(), up to the loop: the glob, the early return without files, the
\* rules configuration and the construction of the engine
RunBegin ==
    /\ pc = "start"
    /\ \E globOk \in BOOLEAN :
          IF ~globOk
          THEN /\ pc' = "aborted"
               /\ failed' = TRUE
               /\ UNCHANGED <<config, outputs>>
          ELSE IF Len(files) = 0
          THEN /\ pc' = "done"
               /\ outputs' = [NoOutputs EXCEPT !["violations-found"] = "false",
                                                !["violation-count"] = "0",
                                                !["summary"] = "No testssl.sh result files found"]
               /\ UNCHANGED <<config, failed>>
          ELSE /\ pc' = "files"
               /\ LET loaded == loadRulesConfig(rulesConfigPath, rulesFile)
                  IN  config' = IF loaded.threw THEN DEFAULT_RULES ELSE loaded.rules
               /\ UNCHANGED <<outputs, failed>>
    /\ UNCHANGED <<results, now, ticks, call, callTime, threw, out, rulesConfigPath, rulesFile,
                   failOnViolationInput, files, index, totalViolations, annotations>>

\* the annotation of one audit result
AnnotationOf(result) ==
    [level |-> IF result.passed THEN "notice" ELSE "error", message |-> result.message]

\* mutant: every result is counted, passing or not
RunFile_CountingAll ==
    /\ pc = "files" /\ index < Len(files)
    /\ index' = index + 1
    /\ LET file == files[index + 1]
           r == getAuditResults(config, file.value, now)
       IN  /\ IF file.exists /\ file.json
              THEN /\ results' = file.value
                   /\ call' = "getAuditResults"
                   /\ callTime' = now
                   /\ threw' = r.threw
                   /\ out' = r.list
              ELSE UNCHANGED <<results, call, callTime, threw, out>>
           /\ IF file.exists /\ file.json /\ ~r.threw
              THEN /\ annotations' = annotations \o [k \in 1..Len(r.list) |-> AnnotationOf(r.list[k])]
                   /\ totalViolations' = totalViolations + Len(r.list)
              ELSE /\ annotations' = Append(annotations,
                          [level |-> "error", message |-> "Failed to process " \o PathOf(index + 1)])
                   /\ UNCHANGED totalViolations
    /\ UNCHANGED <<config, now, ticks, pc, rulesConfigPath, rulesFile, failOnViolationInput,
                   files, outputs, failed>>

\* mutant: a file that cannot be processed ends the run as failed
RunFile_Aborting ==
    /\ pc = "files" /\ index < Len(files)
    /\ index' = index + 1
    /\ LET file == files[index + 1]
           r == getAuditResults(config, file.value, now)
       IN  /\ IF file.exists /\ file.json
              THEN /\ results' = file.value
                   /\ call' = "getAuditResults"
                   /\ callTime' = now
                   /\ threw' = r.threw
                   /\ out' = r.list
              ELSE UNCHANGED <<results, call, callTime, threw, out>>
           /\ IF file.exists /\ file.json /\ ~r.threw
              THEN /\ annotations' = annotations \o [k \in 1..Len(r.list) |-> AnnotationOf(r.list[k])]
                   /\ totalViolations' =
                          totalViolations + Len(SelectSeq(r.list, LAMBDA x : ~x.passed))
                   /\ UNCHANGED <<pc, failed>>
              ELSE /\ annotations' = annotations
                   /\ pc' = "aborted"
                   /\ failed' = TRUE
                   /\ UNCHANGED totalViolations
    /\ UNCHANGED <<config, now, ticks, rulesConfigPath, rulesFile, failOnViolationInput,
                   files, outputs>>

\* one turn of `for (const filePath of files)`: read, parse, audit and
\* annotate, or report the file as failed
RunFile ==
    /\ pc = "files" /\ index < Len(files)
    /\ index' = index + 1
    /\ LET file == files[index + 1]
           r == getAuditResults(config, file.value, now)
       IN  /\ IF file.exists /\ file.json
              THEN /\ results' = file.value
                   /\ call' = "getAuditResults"
                   /\ callTime' = now
                   /\ threw' = r.threw
                   /\ out' = r.list
              ELSE UNCHANGED <<results, call, callTime, threw, out>>
           /\ IF file.exists /\ file.json /\ ~r.threw
              THEN /\ annotations' = annotations \o [k \in 1..Len(r.list) |-> AnnotationOf(r.list[k])]
                   /\ totalViolations' =
                          totalViolations + Len(SelectSeq(r.list, LAMBDA x : ~x.passed))
              ELSE /\ annotations' = Append(annotations,
                          [level |-> "error", message |-> "Failed to process " \o PathOf(index + 1)])
                   /\ UNCHANGED totalViolations
    /\ UNCHANGED <<config, now, ticks, pc, rulesConfigPath, rulesFile, failOnViolationInput,
                   files, outputs, failed>>

\* run(), after the loop: the outputs and the verdict of the run
RunEnd ==
    /\ pc = "files" /\ index = Len(files)
    /\ pc' = "done"
    /\ LET failOnViolation == failOnViolationInput = "true"
           violationsFound == totalViolations > 0
       IN  /\ outputs' = [NoOutputs EXCEPT
                  !["violations-found"] = IF violationsFound THEN "true" ELSE "false",
                  !["violation-count"] = ToString(totalViolations),
                  !["summary"] = IF violationsFound
                                 THEN "Found " \o ToString(totalViolations) \o " violations"
                                 ELSE "All checks passed"]
           /\ failed' = (failOnViolation /\ violationsFound)
    /\ UNCHANGED <<engine, rulesConfigPath, rulesFile, failOnViolationInput, files, index,
                   totalViolations, annotations>>

NextRun == RunBegin \/ RunFile \/ RunEnd

SpecRun == InitRun /\ [][NextRun]_vars

----------------------------------------------------------------------------
(* Properties of the entry points *)

Called == call # "none"

\* the rule tags in the order the rules are evaluated
RuleOrder ==
    <<"overall-grade", "min-tls-version", "blocked-cipher", "forward-secrecy",
      "certificate-expiry">>

RuleIndex(tag) == CHOOSE i \in 1..Len(RuleOrder) : RuleOrder[i] = tag

\* the results of out that carry the rule tag
OfRule(tag) == SelectSeq(out, LAMBDA r : r.rule = tag)

\* whether a returned record reports a failure: audit returns violations only
Failed(r) == IF call = "audit" THEN TRUE ELSE ~r.passed

\* the policy field that governs the rule is configured
Configured(tag) ==
    CASE tag = "overall-grade" -> config.minGrade.t # "undefined"
      [] tag = "min-tls-version" -> config.minTlsVersion.t # "undefined"
      [] tag = "blocked-cipher" ->
            config.blockedCiphers.t = "array" /\ Len(config.blockedCiphers.items) > 0
      [] tag = "forward-secrecy" -> config.requireForwardSecrecy = Bool(TRUE)
      [] tag = "certificate-expiry" -> config.maxCertificateExpiry.t # "undefined"

HasItem(id) == \E i \in 1..Len(results.items) : results.items[i].id = Str(id)

\* C1: audit and getAuditResults emit only results of rules whose policy field
\* is configured, and with the empty policy both return the empty list
\* whatever the findings hold.
C1_OnlyConfiguredRules ==
    Called =>
        /\ \A i \in 1..Len(out) : out[i].rule \in {RuleOrder[k] : k \in 1..Len(RuleOrder)}
                                  /\ Configured(out[i].rule)
        /\ (config = EmptyRules => out = <<>>)

\* findings of three unconfigured rules are present, and the one configured
\* rule alone reports
C1_Witness ==
    /\ Called /\ Len(out) = 1 /\ out[1].rule = "min-tls-version"
    /\ config.minGrade = Undefined /\ config.requireForwardSecrecy = NoBool
    /\ config.blockedCiphers = Absent
    /\ HasItem("overall_grade") /\ HasItem("PFS") /\ HasItem("TLS1")

C3_FixedRuleOrder ==
    Called => \A i, j \in 1..Len(out) :
                 i < j => RuleIndex(out[i].rule) <= RuleIndex(out[j].rule)

\* the findings arrive in the reverse of the rule order, the results do not
C3_Witness ==
    /\ Called /\ Len(out) = 3 /\ Len(results.items) = 3
    /\ results.items[1].id = Str("PFS")
    /\ results.items[2].id = Str("cipherlist_RC4")
    /\ results.items[3].id = Str("TLS1")
    /\ out[1].rule = "min-tls-version"
    /\ out[2].rule = "blocked-cipher"
    /\ out[3].rule = "forward-secrecy"

----------------------------------------------------------------------------
(* Grade rule *)

\* the grade ranking as the specification states it: A+ > A > A- > B > C > D > E > F > T
RankOfGrade ==
    [g \in GradeTexts |->
        CASE g = "A+" -> 9 [] g = "A" -> 8 [] g = "A-" -> 7 [] g = "B" -> 6 [] g = "C" -> 5
          [] g = "D" -> 4 [] g = "E" -> 3 [] g = "F" -> 2 [] g = "T" -> 1]

\* the finding text of the first overall_grade record, "" when there is none
FirstGradeText ==
    LET S == {i \in 1..Len(results.items) : results.items[i].id = Str("overall_grade")}
    IN  IF S = {} THEN ""
        ELSE results.items[CHOOSE i \in S : \A j \in S : i <= j].finding.s

\* C4: for a minimum and an actual grade both in the vocabulary, a failing
\* overall-grade result is emitted iff rank(actual) < rank(minimum); otherwise
\* audit emits nothing and getAuditResults exactly one passing result.
C4_GradeThreshold ==
    (Called /\ config.minGrade.s \in GradeTexts /\ FirstGradeText \in GradeTexts) =>
        LET g == OfRule("overall-grade")
        IN  IF RankOfGrade[FirstGradeText] < RankOfGrade[config.minGrade.s]
            THEN Len(g) = 1 /\ Failed(g[1])
            ELSE IF call = "audit" THEN g = <<>>
                 ELSE Len(g) = 1 /\ g[1].passed

\* equal grades pass, reported by getAuditResults
C4_Witness ==
    /\ call = "getAuditResults" /\ config.minGrade = Str("A-") /\ FirstGradeText = "A-"
    /\ Len(out) = 1 /\ out[1].rule = "overall-grade" /\ out[1].passed

----------------------------------------------------------------------------
(* TLS version rule *)

\* protocol ids and minimum versions in tenths: TLS1 is 1.0, TLS1_n is 1.n
TenthsOfProtocol ==
    [id \in {"TLS1", "TLS1_1", "TLS1_2", "TLS1_3"} |->
        CASE id = "TLS1" -> 10 [] id = "TLS1_1" -> 11 [] id = "TLS1_2" -> 12
          [] id = "TLS1_3" -> 13]

TenthsOfMinimum ==
    [v \in {"1.1", "1.2", "1.3"} |-> CASE v = "1.1" -> 11 [] v = "1.2" -> 12 [] v = "1.3" -> 13]

\* a record the TLS version rule examines: a TLS1 or TLS1_<digits> id and a
\* non-empty finding text
TlsRecord(item) == item.id.s \in DOMAIN TenthsOfProtocol /\ Truthy(item.finding)

BelowMinimum(item) == TenthsOfProtocol[item.id.s] < TenthsOfMinimum[config.minTlsVersion.s]

\* what full mode is to report for the records from position i on: the
\* protocol and whether it passes
RECURSIVE ExpectedTls(_)
ExpectedTls(i) ==
    IF i > Len(results.items) THEN <<>>
    ELSE LET item == results.items[i]
             here == IF ~TlsRecord(item) THEN <<>>
                     ELSE IF isOffered(item.finding.s)
                          THEN << <<item.id.s, ~BelowMinimum(item)>> >>
                          ELSE IF BelowMinimum(item) THEN << <<item.id.s, TRUE>> >>
                               ELSE <<>>
         IN  here \o ExpectedTls(i + 1)

\* C5: in full mode every examined protocol record gives: offered and below
\* the minimum, one failing result; offered and at or above it, one passing
\* result; not offered and below it, one passing result; not offered and at
\* or above it, no result.
C5_TlsFullMode ==
    (call = "getAuditResults" /\ config.minTlsVersion.s \in DOMAIN TenthsOfMinimum) =>
        LET r == OfRule("min-tls-version")
        IN  [k \in 1..Len(r) |-> <<r[k].details.protocol, r[k].passed>>] = ExpectedTls(1)

\* a weak protocol that is disabled passes, a compliant one that is absent is
\* not reported
C5_Witness ==
    /\ call = "getAuditResults" /\ config.minTlsVersion = Str("1.2")
    /\ Len(results.items) = 2
    /\ results.items[1] = Item("TLS1_3", Str("h/1.2.3.4"), Str("OK"), Str("not offered"))
    /\ results.items[2] = Item("TLS1", Undefined, Str("OK"), Str("not offered"))
    /\ Len(out) = 1 /\ out[1].passed /\ out[1].details.protocol = "TLS1"

\* the records that are offered with a version below the minimum, from
\* position i on, as protocol and ip
RECURSIVE OfferedBelow(_)
OfferedBelow(i) ==
    IF i > Len(results.items) THEN <<>>
    ELSE LET item == results.items[i]
         IN  (IF TlsRecord(item) /\ isOffered(item.finding.s) /\ BelowMinimum(item)
              THEN << <<item.id.s, item.ip>> >> ELSE <<>>) \o OfferedBelow(i + 1)

FailedOfRule(tag) == SelectSeq(OfRule(tag), Failed)

\* C6: records that share a protocol id are never collapsed: the failing
\* results of the TLS version rule are, one per record and in scan order,
\* the records offered with a version below the minimum.
C6_OneResultPerRecord ==
    (Called /\ config.minTlsVersion.s \in DOMAIN TenthsOfMinimum) =>
        LET r == FailedOfRule("min-tls-version")
        IN  [k \in 1..Len(r) |-> <<r[k].details.protocol, r[k].details.ip>>] = OfferedBelow(1)

\* TLS1 offered on two IPs: two failing results, the first for the first IP
C6_Witness ==
    /\ Called /\ Len(results.items) = 2
    /\ results.items[1] = Item("TLS1", Str("h/5.6.7.8"), Str("LOW"), Str("offered (deprecated)"))
    /\ results.items[2] = Item("TLS1", Str("h/1.2.3.4"), Str("LOW"), Str("offered (deprecated)"))
    /\ Len(out) = 2 /\ Failed(out[1]) /\ Failed(out[2])
    /\ out[1].details.ip = Str("h/5.6.7.8") /\ out[2].details.ip = Str("h/1.2.3.4")

----------------------------------------------------------------------------
(* Blocked cipher rule *)

\* a record the blocked cipher rule examines
CipherRecord(item) == startsWith(item.id.s, "cipherlist_") /\ Truthy(item.finding)

\* the id without the prefix cipherlist_
NameOfCipher(item) == SubSeq(item.id.s, Len("cipherlist_") + 1, Len(item.id.s))

\* the configured patterns the name contains, whatever the letter case
MatchingPatterns(name) ==
    {k \in 1..Len(config.blockedCiphers.items) :
        includes(toLowerCase(name), toLowerCase(config.blockedCiphers.items[k]))}

\* what is to be reported for the records from position i on: cipher name,
\* first matching pattern, and whether the result fails
RECURSIVE ExpectedCiphers(_)
ExpectedCiphers(i) ==
    IF i > Len(results.items) THEN <<>>
    ELSE LET item == results.items[i]
             m == MatchingPatterns(NameOfCipher(item))
             offered == isOffered(item.finding.s)
             here == IF ~CipherRecord(item) \/ m = {} THEN <<>>
                     ELSE IF call = "audit" /\ ~offered THEN <<>>
                     ELSE << <<NameOfCipher(item), config.blockedCiphers.items[Min(m)],
                               offered>> >>
         IN  here \o ExpectedCiphers(i + 1)

\* C7: every examined cipher record whose name contains a blocked substring
\* gives exactly one result, however many patterns match: failing if the
\* finding is offered, passing (full mode only) if not, its details naming the
\* first matching pattern in configuration order; a record no pattern matches
\* gives none.
C7_BlockedCipherResults ==
    (Called /\ CiphersActive(config)) =>
        LET r == OfRule("blocked-cipher")
        IN  [k \in 1..Len(r) |-> <<r[k].details.cipher, r[k].details.blocked, Failed(r[k])>>]
                = ExpectedCiphers(1)

\* a name two patterns match is reported once, under the first pattern
C7_Witness ==
    /\ call = "getAuditResults" /\ config.blockedCiphers.items = <<"DES", "3DES">>
    /\ Len(results.items) = 2
    /\ results.items[1].id = Str("cipherlist_3DES_IDEA") /\ results.items[1].finding = Str("offered")
    /\ results.items[2].id = Str("cipherlist_3DES_IDEA")
    /\ results.items[2].finding = Str("not offered")
    /\ Len(out) = 2 /\ ~out[1].passed /\ out[2].passed
    /\ out[1].details.blocked = "DES" /\ out[2].details.blocked = "DES"

----------------------------------------------------------------------------
(* Forward secrecy rule *)

\* positions of the findings whose id contains pfs in any letter case
PfsPositions ==
    {i \in 1..Len(results.items) : includes(toLowerCase(results.items[i].id.s), "pfs")}

\* C8: with requireForwardSecrecy true only the first finding whose id
\* contains pfs is examined; none, nothing is emitted; its severity present
\* and neither OK nor INFO, exactly one failing result; otherwise audit emits
\* nothing and getAuditResults exactly one passing result.
C8_ForwardSecrecy ==
    (Called /\ config.requireForwardSecrecy = Bool(TRUE)) =>
        LET r == OfRule("forward-secrecy")
        IN  /\ Len(r) <= 1
            /\ IF PfsPositions = {} THEN r = <<>>
               ELSE LET first == results.items[Min(PfsPositions)]
                        bad == first.severity.t = "string"
                               /\ first.severity.s \notin {"", "OK", "INFO"}
                    IN  /\ r # <<>> => r[1].details = FsDetails(first)
                        /\ IF bad THEN Len(r) = 1 /\ Failed(r[1])
                           ELSE IF call = "audit" THEN r = <<>>
                                ELSE Len(r) = 1 /\ r[1].passed

\* the first pfs finding has severity INFO and a later one HIGH: one passing result
C8_Witness ==
    /\ call = "getAuditResults" /\ config.requireForwardSecrecy = Bool(TRUE)
    /\ Len(results.items) = 2
    /\ results.items[1] = Item("PFS", Undefined, Str("INFO"), Str("offered"))
    /\ results.items[2] = Item("PFS", Str("h/1.2.3.4"), Str("HIGH"), Str("not offered"))
    /\ Len(out) = 1 /\ out[1].rule = "forward-secrecy" /\ out[1].passed

----------------------------------------------------------------------------
(* Certificate expiry rule *)

\* a is an earlier instant than b
Before(a, b) == a.day < b.day \/ (a.day = b.day /\ a.ms < b.ms)

\* the instant n whole days after t
DaysAfter(t, n) == [day |-> t.day + n, ms |-> t.ms]

FirstOf(id) == results.items[Min({i \in 1..Len(results.items) : results.items[i].id = Str(id)})]

\* both certificate dates are present, non-empty and parse
CertDatesParse ==
    /\ HasItem("cert_notBefore") /\ HasItem("cert_notAfter")
    /\ Truthy(FirstOf("cert_notBefore").finding) /\ Truthy(FirstOf("cert_notAfter").finding)
    /\ parseCertificateDate(FirstOf("cert_notBefore").finding.s, FALSE).valid
    /\ parseCertificateDate(FirstOf("cert_notAfter").finding.s, TRUE).valid

NotBeforeInstant == parseCertificateDate(FirstOf("cert_notBefore").finding.s, FALSE)
NotAfterInstant == parseCertificateDate(FirstOf("cert_notAfter").finding.s, TRUE)

\* 0 < daysRemaining <= n at the instant of the call
ExpiresWithin(n) ==
    Before(callTime, NotAfterInstant) /\ ~Before(DaysAfter(callTime, n), NotAfterInstant)

\* the remaining days truncated, when 0 < daysRemaining <= n
WholeDaysLeft(n) ==
    CHOOSE k \in 0..n : /\ ~Before(NotAfterInstant, DaysAfter(callTime, k))
                        /\ Before(NotAfterInstant, DaysAfter(callTime, k + 1))

\* C9: in full mode, with both certificate dates present and parseable,
\* exactly one certificate-expiry result is emitted, the first that applies
\* of: now < notBefore, fail 'not yet valid'; now > notAfter, fail 'expired';
\* 0 < daysRemaining <= maxCertificateExpiry, fail 'expires in N days' with N
\* the days truncated; otherwise pass.
C9_CertificateFullMode ==
    (call = "getAuditResults" /\ CertificateActive(config) /\ CertDatesParse) =>
        LET r == OfRule("certificate-expiry")
            maxDays == config.maxCertificateExpiry.n
        IN  /\ Len(r) = 1
            /\ IF Before(callTime, NotBeforeInstant)
               THEN ~r[1].passed /\ startsWith(r[1].message, "Certificate is not yet valid")
               ELSE IF Before(NotAfterInstant, callTime)
               THEN ~r[1].passed /\ startsWith(r[1].message, "Certificate has expired")
               ELSE IF ExpiresWithin(maxDays)
               THEN /\ ~r[1].passed
                    /\ startsWith(r[1].message,
                                  "Certificate expires in "
                                      \o ToString(WholeDaysLeft(maxDays)) \o " days")
               ELSE r[1].passed

\* exactly maxCertificateExpiry days are left: the certificate fails as expiring
C9_Witness ==
    /\ call = "getAuditResults" /\ config.maxCertificateExpiry = Num(1) /\ CertDatesParse
    /\ callTime = Instant(Dec(15), TimeOfDay(12, 0, 59, 0))
    /\ FirstOf("cert_notAfter").finding = Str("2026-12-16 12:00")
    /\ Len(out) = 1 /\ ~out[1].passed
    /\ startsWith(out[1].message, "Certificate expires in 1 days")

\* the first millisecond of the minute the notAfter text names
NotAfterMinute == parseCertificateDate(FirstOf("cert_notAfter").finding.s, FALSE)

\* C10: a certificate is valid through the entire last minute of its
\* notAfter time: at every instant from HH:mm:00.000 to HH:mm:59.999 neither
\* audit nor getAuditResults reports it as expired.
C10_ValidThroughLastMinute ==
    (/\ Called /\ CertificateActive(config) /\ CertDatesParse
     /\ ~Before(callTime, NotAfterMinute)
     /\ Before(callTime, Later(NotAfterMinute, 60000))) =>
        \A i \in 1..Len(out) : ~startsWith(out[i].message, "Certificate has expired")

\* C11: with maxCertificateExpiry 30 and a certificate whose notBefore is one
\* year before the current instant and whose notAfter is the minute-precision
\* text of the current instant plus 15 days, audit returns a failing
\* certificate-expiry result whose message contains 'expires in 15 days',
\* whatever the seconds and milliseconds of the current instant are.
C11_ExpiresIn15Days ==
    (/\ call = "audit" /\ config = ExpiringRules
     /\ results = ExpiringCertificate(callTime)) =>
        /\ ~threw
        /\ \E i \in 1..Len(out) :
              /\ out[i].rule = "certificate-expiry"
              /\ includes(out[i].message, "expires in 15 days")

\* date texts that new Date rejects once the seconds and Z are appended
UnparseableTexts == {"not-a-date", "2026-13-01 00:00"}

\* one of the two certificate date findings is missing or has no text
CertDateMissing ==
    \/ ~HasItem("cert_notBefore") \/ ~HasItem("cert_notAfter")
    \/ ~Truthy(FirstOf("cert_notBefore").finding)
    \/ ~Truthy(FirstOf("cert_notAfter").finding)

CertDateUnparseable ==
    /\ ~CertDateMissing
    /\ \/ FirstOf("cert_notBefore").finding.s \in UnparseableTexts
       \/ FirstOf("cert_notAfter").finding.s \in UnparseableTexts

----------------------------------------------------------------------------
(* The offered predicate *)

FindingText == results.items[1].finding.s

\* the verdict of isOffered that the last call shows: the value returned by a
\* direct call, and through the TLS rule (TLS 1.0 below the minimum 1.2) a
\* failing result for an offered protocol
ShownOffered ==
    IF call = "isOffered" THEN out[1].passed ELSE Len(out) = 1 /\ Failed(out[1])

\* whether a text put together from lead, word and trail is offered: never
\* when 'not offered' is written in it, else when the word stands alone
OfferedByParts(lead, word, trail) ==
    LET negated == \/ (lead \in {"not ", "NOT "} /\ word \in {"offered", "Offered", "OFFERED", "offered2"})
                   \/ trail = ", Not Offered"
        alone == /\ word \in {"offered", "Offered", "OFFERED"}
                 /\ lead \in {"", "not ", "NOT ", "is "}
                 /\ trail # "_x"
    IN  ~negated /\ alone

\* C13: isOffered is false for every text containing 'not offered' in any
\* letter case, false for empty or missing text, and otherwise true exactly
\* when 'offered' stands as a whole word: 'offered' and 'offered (deprecated)'
\* are offered, 'unoffered' and 'not offered + downgraded to weaker protocol'
\* are not.
C13_IsOffered ==
    (Called /\ config \in OfferedRules /\ Len(results.items) = 1) =>
        /\ ~threw
        /\ \A lead \in OfferedLeads, word \in OfferedWords, trail \in OfferedTrails :
              FindingText = lead \o word \o trail =>
                  (ShownOffered <=> OfferedByParts(lead, word, trail))
        /\ FindingText = "" => ~ShownOffered
        /\ FindingText \in {"offered", "offered (deprecated)"} => ShownOffered
        /\ FindingText \in {"unoffered", "not offered + downgraded to weaker protocol"}
              => ~ShownOffered

\* a direct call on 'NOT Offered (deprecated)' answers false
C13_Witness ==
    /\ call = "isOffered"
    /\ FindingText = "NOT Offered (deprecated)"
    /\ out = << [rule |-> "isOffered", passed |-> FALSE] >>

----------------------------------------------------------------------------
(* Protocol ids *)

\* the version of a protocol id in hundredths: TLS1 is 1.0, TLS1_<n> is 1.<n>
HundredthsOfId ==
    [id \in {"TLS1", "TLS1_0", "TLS1_2", "TLS1_3", "TLS1_10"} |->
        CASE id = "TLS1" -> 100 [] id = "TLS1_0" -> 100 [] id = "TLS1_2" -> 120
          [] id = "TLS1_3" -> 130 [] id = "TLS1_10" -> 110]

HundredthsOfMinimum == [v \in {"1.1", "1.3"} |-> IF v = "1.1" THEN 110 ELSE 130]

\* the ids of the findings that are protocol ids, in order
ProtocolIds ==
    LET ids == [i \in 1..Len(results.items) |-> results.items[i].id.s]
    IN  SelectSeq(ids, LAMBDA id : id \in DOMAIN HundredthsOfId)

IdBelowMinimum(id) == HundredthsOfId[id] < HundredthsOfMinimum[config.minTlsVersion.s]

\* C14: TLS1 is version 1.0 and TLS1_<n> is version 1.<n>; a finding whose id
\* is not exactly TLS1 or TLS1_<digits> (SSLv3, TLS1_, tls1_2, TLS1_2x, ...)
\* never produces a min-tls-version result in either mode and raises nothing.
C14_ProtocolIdMapping ==
    (Called /\ config \in TlsIdRules) =>
        /\ ~threw
        /\ \A i \in 1..Len(out) :
              /\ out[i].rule = "min-tls-version"
              /\ out[i].details.protocol \in DOMAIN HundredthsOfId
              /\ ~out[i].details.version.nan
              /\ out[i].details.version.num * 100
                    = HundredthsOfId[out[i].details.protocol] * out[i].details.version.den
              /\ Failed(out[i]) <=> IdBelowMinimum(out[i].details.protocol)
        /\ [i \in 1..Len(out) |-> out[i].details.protocol]
              = IF call = "audit" THEN SelectSeq(ProtocolIds, IdBelowMinimum) ELSE ProtocolIds

\* TLS1_10 is reported as version 1.10, below 1.3; tls1_2 is passed over
C14_Witness ==
    /\ call = "getAuditResults" /\ config.minTlsVersion = Str("1.3")
    /\ Len(results.items) = 2
    /\ results.items[1].id = Str("tls1_2") /\ results.items[2].id = Str("TLS1_10")
    /\ Len(out) = 1 /\ ~out[1].passed
    /\ out[1].details.protocol = "TLS1_10"
    /\ out[1].details.version = [nan |-> FALSE, num |-> 110, den |-> 100]

----------------------------------------------------------------------------
(* Grades outside the vocabulary *)

\* C15: with a configured minimum grade that is not in the vocabulary and an
\* overall_grade finding with non-empty text, both modes emit exactly one
\* failing overall-grade result 'Invalid minimum grade specified', also when
\* the actual grade is unrecognized too, and raise nothing.
C15_InvalidMinimumGrade ==
    (/\ Called /\ Truthy(config.minGrade) /\ config.minGrade.s \notin GradeTexts
     /\ FirstGradeText # "") =>
        LET g == OfRule("overall-grade")
        IN  /\ ~threw
            /\ Len(g) = 1
            /\ Failed(g[1])
            /\ startsWith(g[1].message, "Invalid minimum grade specified")

\* C16: with a minimum in the vocabulary, every non-empty actual grade text
\* that is not one of the nine letters has no rank and yields exactly one
\* failing overall-grade result 'Unknown grade received', never a passing one.
C16_UnknownActualGrade ==
    (/\ Called /\ config.minGrade.s \in GradeTexts
     /\ FirstGradeText # "" /\ FirstGradeText \notin GradeTexts) =>
        LET g == OfRule("overall-grade")
        IN  /\ Len(g) = 1
            /\ Failed(g[1])
            /\ startsWith(g[1].message, "Unknown grade received")

\* C17: the grade rule emits at most one result per call, about the first
\* overall_grade finding; with no such finding, or with an empty text in the
\* first one, it emits nothing although minGrade is configured.
C17_AtMostOneGradeResult ==
    (Called /\ config \in GradeNameRules) =>
        LET g == OfRule("overall-grade")
        IN  /\ Len(g) <= 1
            /\ FirstGradeText = "" => g = <<>>
            /\ Len(g) = 1 => g[1].details.actualGrade = FirstGradeText
            /\ (call = "getAuditResults" /\ FirstGradeText # "") => Len(g) = 1

\* two overall_grade findings, F before B: the one result is about F
C17_Witness ==
    /\ call = "audit" /\ config.minGrade = Str("B")
    /\ Len(results.items) = 2
    /\ results.items[1] = Item("overall_grade", Undefined, Str("OK"), Str("F"))
    /\ results.items[2] = Item("overall_grade", Undefined, Str("OK"), Str("B"))
    /\ Len(out) = 1 /\ out[1].details.actualGrade = "F"

----------------------------------------------------------------------------
(* Malformed records *)

\* C18: audit and getAuditResults never raise, for any policy and any array
\* of finding records: records without optional fields, with missing or
\* non-string id or finding values, and null elements all lead to ordinary
\* result lists.
C18_NeverRaises == Called => ~threw

----------------------------------------------------------------------------
(* The two modes *)

\* the failing results of a full-mode list, as rule, message and details
FailingPart(list) ==
    LET failing == SelectSeq(list, LAMBDA r : ~r.passed)
    IN  [i \in 1..Len(failing) |->
            [rule |-> failing[i].rule, message |-> failing[i].message,
             details |-> failing[i].details]]

\* C19: when maxCertificateExpiry is not configured, the list audit returns
\* equals, element by element and in order (rule, message, details), the
\* failing results of getAuditResults on the same findings.
C19_ModesAgree ==
    (Called /\ ~threw /\ ~CertificateActive(config)) =>
        IF call = "audit"
        THEN out = FailingPart(getAuditResults(config, results, callTime).list)
        ELSE FailingPart(out) = audit(config, results, callTime).list

\* audit returns the one failure of the two results full mode reports
C19_Witness ==
    /\ call = "audit" /\ ~CertificateActive(config)
    /\ Len(out) = 1 /\ out[1].rule = "min-tls-version"
    /\ Len(getAuditResults(config, results, callTime).list) = 2
    /\ getAuditResults(config, results, callTime).list[1].passed

----------------------------------------------------------------------------
(* The certificate rule in the two modes *)

\* C20: for a certificate with now < notBefore and
\* 0 < daysRemaining <= maxCertificateExpiry, audit returns two
\* certificate-expiry violations (not yet valid, expiring), while
\* getAuditResults returns exactly one failing result, 'not yet valid'.
C20_CertificateAsymmetry ==
    (/\ Called /\ CertificateActive(config) /\ CertDatesParse
     /\ Before(callTime, NotBeforeInstant)
     /\ ExpiresWithin(config.maxCertificateExpiry.n)) =>
        LET r == OfRule("certificate-expiry")
        IN  IF call = "audit"
            THEN /\ Len(r) = 2
                 /\ startsWith(r[1].message, "Certificate is not yet valid")
                 /\ startsWith(r[2].message, "Certificate expires in ")
            ELSE /\ Len(r) = 1
                 /\ ~r[1].passed
                 /\ startsWith(r[1].message, "Certificate is not yet valid")

\* on 2026-12-19 a certificate valid from 2026-12-20 to 2026-12-31 is both
\* not yet valid and expiring within 14 days
C20_Witness ==
    /\ call = "audit" /\ config.maxCertificateExpiry = Num(14) /\ CertDatesParse
    /\ callTime = Instant(Dec(19), TimeOfDay(8, 0, 0, 0))
    /\ FirstOf("cert_notBefore").finding = Str("2026-12-20 00:00")
    /\ FirstOf("cert_notAfter").finding = Str("2026-12-31 23:59")
    /\ Len(out) = 2
    /\ startsWith(out[2].message, "Certificate expires in 12 days")

----------------------------------------------------------------------------
(* Not yet valid and expired *)

HasMessage(prefix) == \E i \in 1..Len(out) : startsWith(out[i].message, prefix)

NotYetValidAndExpired ==
    HasMessage("Certificate is not yet valid") /\ HasMessage("Certificate has expired")

\* C21: for every pair of parseable cert_notBefore and cert_notAfter texts and
\* every current time, audit never returns both a 'Certificate is not yet
\* valid' and a 'Certificate has expired' violation in the same call.
C21_NeverBothOutcomes ==
    (call = "audit" /\ CertificateActive(config) /\ CertDatesParse) =>
        ~NotYetValidAndExpired

\* C21 as amended: for every pair of parseable texts whose notBefore is not
\* later than its notAfter, and every current time, audit never returns both
\* violations in the same call.
C21_NeverBothWhenOrdered ==
    (/\ call = "audit" /\ CertificateActive(config) /\ CertDatesParse
     /\ ~Before(NotAfterInstant, NotBeforeInstant)) =>
        ~NotYetValidAndExpired

\* an ordered pair, one millisecond past its notAfter: expired only
C21_Witness ==
    /\ call = "audit" /\ CertificateActive(config) /\ CertDatesParse
    /\ FirstOf("cert_notBefore").finding = Str("2026-01-01 00:00")
    /\ FirstOf("cert_notAfter").finding = Str("2026-12-16 12:00")
    /\ callTime = Instant(Dec(16), TimeOfDay(12, 0, 59, 1))
    /\ HasMessage("Certificate has expired")
    /\ ~HasMessage("Certificate is not yet valid")

----------------------------------------------------------------------------
(* Statelessness *)

\* what the last call returns when made on a fresh engine with the same
\* policy, findings and clock
FreshCall ==
    IF call = "audit" THEN audit(config, results, callTime)
    ELSE getAuditResults(config, results, callTime)

----------------------------------------------------------------------------
(* Inputs are read only *)

\* C23: audit and getAuditResults leave their inputs unchanged: across every
\* step the policy, with its blockedCiphers list, and the findings array with
\* its records stay equal to what they were.
C23_InputsUnchanged == [][config' = config /\ results' = results]_vars

\* a call has matched a lower-case pattern against an upper-case cipher name
C23_Witness ==
    /\ call = "getAuditResults"
    /\ \E k \in 1..Len(config.blockedCiphers.items) : config.blockedCiphers.items[k] = "rc4"
    /\ \E i \in 1..Len(out) : out[i].details.blocked = "rc4" /\ out[i].details.cipher = "RC4"

----------------------------------------------------------------------------
(* IP annotation *)

EndsWith(text, suffix) ==
    Len(text) >= Len(suffix) /\ SubSeq(text, Len(text) - Len(suffix) + 1, Len(text)) = suffix

\* the findings with every ip removed
WithoutIp ==
    ArrayOf([i \in 1..Len(results.items) |-> [results.items[i] EXCEPT !.ip = Undefined]])

\* rule and verdict of each result of a list
Verdicts(list) ==
    [i \in 1..Len(list) |-> <<list[i].rule, IF call = "audit" THEN TRUE ELSE ~list[i].passed>>]

\* the last call repeated on the findings without their ips
CallWithoutIp ==
    IF call = "audit" THEN audit(config, WithoutIp, callTime)
    ELSE getAuditResults(config, WithoutIp, callTime)

\* C24: the message of a TLS version, blocked cipher, forward secrecy or
\* certificate result ends with ' [<ip>]' when the examined finding has a
\* non-empty ip and holds no bracketed suffix when the ip is absent or empty;
\* the ip never decides pass or fail.
C24_IpAnnotation ==
    (Called /\ config \in IpRules) =>
        /\ \A i \in 1..Len(out) :
              LET ip == out[i].details.ip
              IN  /\ \E j \in 1..Len(results.items) : results.items[j].ip = ip
                  /\ out[i].rule = "certificate-expiry" => ip = FirstOf("cert_notAfter").ip
                  /\ IF ip.t = "string" /\ ip.s # ""
                     THEN EndsWith(out[i].message, " [" \o ip.s \o "]")
                     ELSE ~includes(out[i].message, "[") /\ ~includes(out[i].message, "]")
        /\ Verdicts(out) = Verdicts(CallWithoutIp.list)

\* one protocol reported for an ip and one without
C24_Witness ==
    /\ call = "getAuditResults" /\ Len(out) = 2
    /\ EndsWith(out[1].message, "minimum required: TLS 1.2) [h/1.2.3.4]")
    /\ out[2].message = "TLS version TLS1.3 meets the minimum requirement of TLS 1.2"

----------------------------------------------------------------------------
(* The action runner *)

\* whether a file is read, parsed and audited without an exception
Processable(file) ==
    file.exists /\ file.json /\ ~getAuditResults(config, file.value, now).threw

\* the number of failing results of a file; none when it cannot be processed
FailingIn(file) ==
    IF Processable(file)
    THEN LET list == getAuditResults(config, file.value, now).list
         IN  Cardinality({k \in 1..Len(list) : list[k].passed = FALSE})
    ELSE 0

\* the sum over the files from the k-th on, taken from the last file backwards
RECURSIVE FailingFrom(_)
FailingFrom(k) == IF k > Len(files) THEN 0 ELSE FailingFrom(k + 1) + FailingIn(files[k])

\* C25: after all files are processed 'violation-count' is the sum over the
\* files of their failing results, 'violations-found' is 'true' exactly when
\* the sum is positive, and the run is marked failed exactly when
\* fail-on-violation is 'true' and the sum is positive; the order of the
\* files does not matter to the total.
C25_Aggregation ==
    pc = "done" =>
        /\ totalViolations = FailingFrom(1)
        /\ outputs["violation-count"] = ToString(FailingFrom(1))
        /\ outputs["violations-found"] = "true" <=> FailingFrom(1) > 0
        /\ outputs["violations-found"] = "false" <=> FailingFrom(1) = 0
        /\ failed <=> (failOnViolationInput = "true" /\ FailingFrom(1) > 0)

\* two files with different numbers of failing results, and the run failed
C25_Witness ==
    /\ pc = "done" /\ Len(files) = 2 /\ failed
    /\ FailingIn(files[1]) > 0 /\ FailingIn(files[2]) > FailingIn(files[1])
    /\ outputs["violation-count"] = ToString(FailingIn(files[1]) + FailingIn(files[2]))

\* the policy a rules file stands for when what it leaves out is taken from
\* the defaults
MergedWithDefaults(rules) ==
    Rules(IF rules.minGrade.t = "undefined" THEN DEFAULT_RULES.minGrade ELSE rules.minGrade,
          IF rules.minTlsVersion.t = "undefined" THEN DEFAULT_RULES.minTlsVersion
          ELSE rules.minTlsVersion,
          IF rules.blockedCiphers.t = "undefined" THEN DEFAULT_RULES.blockedCiphers
          ELSE rules.blockedCiphers,
          IF rules.requireForwardSecrecy.t = "undefined" THEN DEFAULT_RULES.requireForwardSecrecy
          ELSE rules.requireForwardSecrecy,
          IF rules.maxCertificateExpiry.t = "undefined" THEN DEFAULT_RULES.maxCertificateExpiry
          ELSE rules.maxCertificateExpiry)

\* C27: loadRulesConfig merges a provided configuration file with the
\* defaults: what the file sets is kept and every rule it leaves out has the
\* value of DEFAULT_RULES; with an empty path or no file the policy is
\* DEFAULT_RULES.
C27_MergesWithDefaults ==
    pc = "files" =>
        IF rulesConfigPath = "" \/ ~rulesFile.exists THEN config = DEFAULT_RULES
        ELSE rulesFile.json => config = MergedWithDefaults(rulesFile.value)

\* the annotations that report the k-th file as failed
FailedToProcess(k) ==
    {a \in 1..Len(annotations) :
        annotations[a] = [level |-> "error", message |-> "Failed to process " \o PathOf(k)]}

\* C28: a file whose reading, parsing or auditing raises is reported as an
\* error for that file only, adds nothing to the total and does not stop the
\* remaining files; a run in which every file fails ends with
\* violation-count 0, violations-found 'false' and is not marked failed.
C28_PerFileFailures ==
    /\ pc = "aborted" => index = 0
    /\ pc = "done" =>
          /\ index = Len(files)
          /\ \A k \in 1..Len(files) :
                Cardinality(FailedToProcess(k)) = IF Processable(files[k]) THEN 0 ELSE 1
          /\ totalViolations =
                FailingFrom(1) /\ \A k \in 1..Len(files) : ~Processable(files[k]) => FailingIn(files[k]) = 0
          /\ (\A k \in 1..Len(files) : ~Processable(files[k])) =>
                /\ outputs["violation-count"] = "0"
                /\ outputs["violations-found"] = "false"
                /\ ~failed

\* a file that cannot be read, then one whose failing results are counted
C28_Witness ==
    /\ pc = "done" /\ Len(files) = 2
    /\ ~files[1].exists /\ Processable(files[2])
    /\ Cardinality(FailedToProcess(1)) = 1
    /\ totalViolations = FailingIn(files[2]) /\ totalViolations > 0

\* every file of a run fails, one in its audit, and the run is not failed
C28_AllFailWitness ==
    /\ pc = "done" /\ Len(files) = 2 /\ failOnViolationInput = "true"
    /\ files[1].json /\ \A k \in 1..2 : ~Processable(files[k])
    /\ outputs["violation-count"] = "0" /\ ~failed

----------------------------------------------------------------------------
(* Wrapped results *)

\* the scan items nested in the result objects of the input, in order
NestedItems ==
    IF results.kind = "object" THEN results.scanResult
    ELSE LET RECURSIVE Flat(_)
             Flat(k) == IF k > Len(results.items) THEN <<>>
                        ELSE results.items[k].scanResult \o Flat(k + 1)
         IN  Flat(1)

\* the input is one result object or an array of result objects
IsWrapped ==
    \/ results.kind = "object" /\ "scanResult" \in DOMAIN results
    \/ /\ results.kind = "array" /\ Len(results.items) > 0
       /\ \A k \in 1..Len(results.items) : "scanResult" \in DOMAIN results.items[k]

\* C26: audit accepts results wrapped in result objects: for one object with
\* a scanResult list or an array of such objects it reports the violations
\* of the nested scan items; a nested 'TLS1_0' that is 'offered' yields a
\* min-tls-version violation under minTlsVersion '1.2'.
C26_WrappedResultsAudited ==
    (call = "audit" /\ IsWrapped) =>
        /\ ~threw
        /\ out = audit(config, ArrayOf(NestedItems), callTime).list
        /\ (\E k \in 1..Len(NestedItems) :
               NestedItems[k].id = Str("TLS1_0") /\ NestedItems[k].finding = Str("offered"))
           => \E i \in 1..Len(out) : out[i].rule = "min-tls-version"

\* the same holds of bare scan items only for the ids the TLS rule knows
C26_BareItemsAudited ==
    (call = "audit" /\ results.kind = "array" /\ ~IsWrapped /\ ~threw) =>
        ((\E k \in 1..Len(results.items) : results.items[k].id = Str("TLS1"))
            => \E i \in 1..Len(out) : out[i].rule = "min-tls-version")

----------------------------------------------------------------------------
(* Several certificates *)

\* whether the k-th finding is a certificate date after an earlier finding
\* of the same id
LaterCertificateDate(k) ==
    /\ results.items[k].id \in {Str("cert_notBefore"), Str("cert_notAfter")}
    /\ \E j \in 1..(k - 1) : results.items[j].id = results.items[k].id

\* the findings without the certificate dates that follow an earlier one of
\* the same id
RECURSIVE WithoutLaterDates(_)
WithoutLaterDates(k) ==
    IF k > Len(results.items) THEN <<>>
    ELSE (IF LaterCertificateDate(k) THEN <<>> ELSE << results.items[k] >>)
         \o WithoutLaterDates(k + 1)

\* the last call repeated on the first certificate only
CallOnFirstCertificate ==
    IF call = "audit" THEN audit(config, ArrayOf(WithoutLaterDates(1)), callTime)
    ELSE getAuditResults(config, ArrayOf(WithoutLaterDates(1)), callTime)

\* the text of the earliest finding with the given id
EarliestText(id) ==
    LET k == CHOOSE i \in 1..Len(results.items) :
                 /\ results.items[i].id = Str(id)
                 /\ \A j \in 1..(i - 1) : results.items[j].id # Str(id)
    IN  results.items[k].finding.s

\* C29: the certificate expiry rule examines only the first cert_notBefore
\* and the first cert_notAfter finding: certificate dates further down the
\* list never produce a result, and at most one certificate is judged per
\* call in both modes.
C29_FirstCertificateOnly ==
    (Called /\ CertificateActive(config) /\ results.kind = "array") =>
        /\ out = CallOnFirstCertificate.list
        /\ call = "getAuditResults" => Len(out) <= 1
        /\ \A i \in 1..Len(out) :
              /\ out[i].details.notBefore = EarliestText("cert_notBefore")
              /\ out[i].details.notAfter = EarliestText("cert_notAfter")

\* the first certificate is valid and passes while a second one has expired
C29_Witness ==
    /\ call = "getAuditResults" /\ callTime = Instant(Dec(19), TimeOfDay(8, 0, 0, 0))
    /\ Len(results.items) = 3
    /\ results.items[2].finding = Str("2026-12-31 23:59")
    /\ results.items[3].finding = Str("2026-12-16 12:00")
    /\ Len(out) = 1 /\ out[1].passed

----------------------------------------------------------------------------
(* A minimum TLS version that is no number *)

\* non-empty texts that start with no number
NonNumericTexts == {"TLSv1.2", "v1.3", "one.two", "-", " "}

\* the records of TLS protocols whose finding says offered
OfferedTlsRecords ==
    SelectSeq(results.items,
              LAMBDA x : /\ x.id \in {Str("TLS1"), Str("TLS1_1"), Str("TLS1_2"), Str("TLS1_3")}
                         /\ x.finding \in {Str("offered"), Str("offered (deprecated)")})

\* C30: under a non-empty minTlsVersion that does not parse as a number the
\* TLS version rule never fails: audit emits no min-tls-version violation,
\* getAuditResults reports every offered TLS protocol record as passing and
\* nothing for the records that are not offered, and no result signals the
\* invalid value.
C30_NonNumericMinimumNeverFails ==
    (Called /\ config.minTlsVersion.s \in NonNumericTexts /\ results.kind = "array") =>
        /\ ~threw
        /\ call = "audit" => out = <<>>
        /\ call = "getAuditResults" =>
              /\ Len(out) = Len(OfferedTlsRecords)
              /\ \A i \in 1..Len(out) :
                    /\ out[i].rule = "min-tls-version"
                    /\ out[i].passed
                    /\ out[i].details.protocol = OfferedTlsRecords[i].id.s
                    /\ out[i].details.ip = OfferedTlsRecords[i].ip
                    /\ includes(out[i].message,
                                " meets the minimum requirement of TLS " \o config.minTlsVersion.s)

\* TLS 1.0 offered and TLS 1.3 not offered under the minimum 'TLSv1.2'
C30_Witness ==
    /\ call = "getAuditResults" /\ config.minTlsVersion = Str("TLSv1.2")
    /\ Len(results.items) = 2
    /\ results.items[1].id = Str("TLS1") /\ results.items[1].finding = Str("offered (deprecated)")
    /\ results.items[2].id = Str("TLS1_3") /\ results.items[2].finding = Str("not offered")
    /\ Len(out) = 1 /\ out[1].passed

====
